---- MODULE Spec2Model ----
(***************************************************************************)
(* Masumi registry service: the synchronisation and reconciliation engine. *)
(*                                                                         *)
(*  - the ledger scanner   updateLatestCardanoRegistryEntries              *)
(*  - the metadata handlers processMip001Entry / processMip002Entry        *)
(*  - the health verifier  checkAndVerifyEndpoint / checkA2AAgentCard      *)
(*  - the batcher          updateHealthCheck /                             *)
(*                         checkVerifyAndUpdateRegistryEntries             *)
(*  - the two single-flight mutexes updateMutex / healthMutex              *)
(*                                                                         *)
(* The entry store (prisma.registryEntry), the source table                *)
(* (prisma.registrySource), the ledger provider and the probed endpoints   *)
(* are state; every await of the handlers that reads or writes one of them *)
(* is one action.                                                          *)
(***************************************************************************)
EXTENDS Integers, Sequences, FiniteSets, TLC

VARIABLES
    now,        \* the wall clock (new Date()), in units of two minutes
    entries,    \* prisma.registryEntry: a set of rows
    sources,    \* prisma.registrySource: id -> [policyId, lastTxId, lastCheckedPage]
    ledger,     \* the provider's redeemer rows of each policy: policyId -> Seq(row)
    mempool,    \* the rows the chain has yet to confirm: policyId -> Seq(row)
    net,        \* the responses each url may give to a GET: url -> set of responses
    faults,     \* the calls that may fail in this run: subset of FaultKinds
    updateMutex,\* locked flag of updateMutex
    healthMutex,\* locked flag of healthMutex
    scan,       \* the invocations of updateLatestCardanoRegistryEntries: caller -> frame
    hc,         \* the invocations of updateHealthCheck: caller -> frame
    runs,       \* calls the environment may still make: [scan |-> n, hc |-> n]
    skipped,    \* 'Mutex timeout when locking' lines logged: [scan |-> n, hc |-> n]
    rewound,    \* what an operator's rewind of a cursor left behind: the position
                \* of the cursor and the statuses of the entries before it
    consumer,   \* a client of the diff endpoint: its cursor and what it has received
    converted,  \* a metadata field on its way through metadataStringConvert
    query       \* a request to getRegistryEntries on its way through the service

vars == <<now, entries, sources, ledger, mempool, net, faults, updateMutex, healthMutex,
          scan, hc, runs, skipped, rewound, consumer, converted, query>>

(***************************************************************************)
(* Bounds of the model                                                     *)
(***************************************************************************)
MaxTime == 1
MaxScanRuns == 1
MaxRemintScanRuns == 2
MaxHcRuns == 1
MaxReplayRuns == 3
MaxMutexRuns == 2
MaxHealthRuns == 1
MaxLedgerRuns == 2
PageSize == 2
FleetSize == 52
FleetInvalid == 11
MaxFleetRuns == 2

(***************************************************************************)
(* Program constants                                                       *)
(***************************************************************************)
InvalidRetryCap == 20
OnlineOfflineTake == 50
InvalidTake == 50
InvalidBatchMax == 10

(***************************************************************************)
(* $Enums.Status                                                           *)
(***************************************************************************)
Online == "Online"
Offline == "Offline"
Invalid == "Invalid"
Deregistered == "Deregistered"
Status == {Online, Offline, Invalid, Deregistered}

Null == "null"

(***************************************************************************)
(* Urls.  A url is a string; what new URL(url) parses out of it is given   *)
(* by the three operators below.                                           *)
(***************************************************************************)
SharedUrl == "https://shared.test"
OtherUrl == "https://other.test"
LocalUrl == "http://localhost:3000"
QueryUrl == "https://shared.test/?x=1"
FtpUrl == "ftp://files.test"
LoopbackIpUrl == "https://127.0.0.1:8443"
Urls == {SharedUrl, OtherUrl, LocalUrl, QueryUrl, FtpUrl, LoopbackIpUrl}

UrlIsLoopback(url) == url \in {LocalUrl, LoopbackIpUrl}
UrlHasSearch(url) == url \in {QueryUrl}
UrlIsHttp(url) == url \notin {FtpUrl}

(***************************************************************************)
(* What a GET can bring back: a network error or timeout (fetch throws),   *)
(* or an HTTP response with its ok flag and its body.  The body is either  *)
(* no JSON at all (json() throws) or an object of which the checkers read  *)
(* agentIdentifier, type and whether agentCardSchema accepts it.           *)
(***************************************************************************)
Response(kind, ok, json, agentIdentifier, type, card) ==
    [kind |-> kind, ok |-> ok, json |-> json,
     agentIdentifier |-> agentIdentifier, type |-> type, card |-> card]

RespDown == Response("error", FALSE, FALSE, Null, Null, FALSE)
Resp500 == Response("http", FALSE, FALSE, Null, Null, FALSE)
RespNotJson == Response("http", TRUE, FALSE, Null, Null, FALSE)
RespAgent == Response("http", TRUE, TRUE, Null, "masumi-agent", FALSE)
RespOther == Response("http", TRUE, TRUE, Null, "other", FALSE)
RespEmptyId == Response("http", TRUE, TRUE, "", "masumi-agent", FALSE)
RespId(a) == Response("http", TRUE, TRUE, a, "masumi-agent", FALSE)
RespCard == Response("http", TRUE, TRUE, Null, Null, TRUE)

(***************************************************************************)
(* checkAndVerifyEndpoint: static rejection, then GET url/availability.    *)
(* `r` is what the GET brings back when it is sent.  The result says       *)
(* whether a request was sent.                                             *)
(***************************************************************************)
CheckResult(status, id, sent) ==
    [status |-> status, returnedAgentIdentifier |-> id, sent |-> sent]

checkAndVerifyEndpoint(url, r) ==
    IF UrlIsLoopback(url) \/ UrlHasSearch(url) THEN CheckResult(Invalid, Null, FALSE)
    ELSE IF ~UrlIsHttp(url) THEN CheckResult(Invalid, Null, FALSE)
    ELSE IF r.kind = "error" THEN CheckResult(Offline, Null, TRUE)
    ELSE IF ~r.ok THEN CheckResult(Offline, Null, TRUE)
    ELSE IF ~r.json THEN CheckResult(Offline, Null, TRUE)
    ELSE IF r.agentIdentifier # Null /\ r.agentIdentifier # ""
         THEN CheckResult(Online, r.agentIdentifier, TRUE)
    ELSE CheckResult(IF r.type = "masumi-agent" THEN Online ELSE Invalid, Null, TRUE)

(***************************************************************************)
(* checkA2AAgentCard: static rejection, then GET of the card url.          *)
(***************************************************************************)
\* the card checker without its look at host and scheme
checkA2AAgentCardUnscreened(url, r) ==
    IF r.kind = "error" THEN CheckResult(Offline, Null, TRUE)
    ELSE IF ~r.ok THEN CheckResult(Offline, Null, TRUE)
    ELSE IF ~r.json THEN CheckResult(Offline, Null, TRUE)
    ELSE CheckResult(IF r.card THEN Online ELSE Invalid, Null, TRUE)

checkA2AAgentCard(url, r) ==
    IF UrlIsLoopback(url) THEN CheckResult(Invalid, Null, FALSE)
    ELSE IF ~UrlIsHttp(url) THEN CheckResult(Invalid, Null, FALSE)
    ELSE IF r.kind = "error" THEN CheckResult(Offline, Null, TRUE)
    ELSE IF ~r.ok THEN CheckResult(Offline, Null, TRUE)
    ELSE IF ~r.json THEN CheckResult(Offline, Null, TRUE)
    ELSE CheckResult(IF r.card THEN Online ELSE Invalid, Null, TRUE)

(***************************************************************************)
(* getHealthCheckKey and the compound key `${type}:${url}` of the batch.   *)
(***************************************************************************)
\* a key that names the url alone, whatever the kind of the entry
getHealthCheckKeyUntyped(entry) ==
    [url |-> IF entry.metadataVersion = 2 /\ entry.agentCardUrl # Null
                THEN entry.agentCardUrl ELSE entry.apiBaseUrl,
     isA2A |-> FALSE]

getHealthCheckKey(entry) ==
    IF entry.metadataVersion = 2 /\ entry.agentCardUrl # Null
       THEN [url |-> entry.agentCardUrl, isA2A |-> TRUE]
       ELSE [url |-> entry.apiBaseUrl, isA2A |-> FALSE]

LookupKey(entry) == getHealthCheckKey(entry)

(***************************************************************************)
(* The ledger.  Asset units are policy id + asset name; a transaction is   *)
(* known by its hash, and blockfrost.txsUtxos(hash) gives its inputs and   *)
(* outputs, here flattened to the (unit, quantity) amounts in the order    *)
(* the two nested loops of the scanner visit them.                         *)
(***************************************************************************)
Policy1 == "p1"
Policy2 == "p2"
A1 == "p1a1"
A2 == "p1a2"
A3 == "p1a3"
B1 == "p2b1"
Units == {A1, A2, A3, B1}

UnitStartsWith(unit, policyId) ==
    \/ policyId = Policy1 /\ unit \in {A1, A2, A3}
    \/ policyId = Policy2 /\ unit \in {B1}

Amount(unit, quantity) == [unit |-> unit, quantity |-> quantity]
Utxos(inputs, outputs) == [inputs |-> inputs, outputs |-> outputs]

txsUtxos(hash) ==
    CASE hash = "mintA1"    -> Utxos(<<>>, <<Amount(A1, 1)>>)
      [] hash = "mintA2"    -> Utxos(<<>>, <<Amount(A2, 1)>>)
      [] hash = "mintA3"    -> Utxos(<<>>, <<Amount(A3, 1)>>)
      [] hash = "mintA1A2"  -> Utxos(<<>>, <<Amount(A1, 1), Amount(A2, 1)>>)
      [] hash = "burnA1"    -> Utxos(<<Amount(A1, 1)>>, <<>>)
      [] hash = "burnA2"    -> Utxos(<<Amount(A2, 1)>>, <<>>)
      [] hash = "remintA1"  -> Utxos(<<>>, <<Amount(A1, 1)>>)
      [] hash = "remintA2"  -> Utxos(<<>>, <<Amount(A2, 1)>>)
      [] hash = "moveA1"    -> Utxos(<<Amount(A1, 1)>>, <<Amount(A1, 1)>>)
      [] hash = "mintB1"    -> Utxos(<<>>, <<Amount(B1, 1)>>)
      [] hash = "mintA1x2"  -> Utxos(<<>>, <<Amount(A1, 2)>>)
      [] hash = "mintA2mergeA1" ->
             Utxos(<<Amount(A1, 1), Amount(A1, 1)>>, <<Amount(A1, 2), Amount(A2, 1)>>)
      [] hash = "burnA1of2" -> Utxos(<<Amount(A1, 1), Amount(A1, 1)>>, <<Amount(A1, 1)>>)
      [] OTHER              -> Utxos(<<>>, <<>>)

Row(hash, purpose) == [tx_hash |-> hash, purpose |-> purpose]

(***************************************************************************)
(* blockfrost.assetsById(asset).onchain_metadata, reduced to what the two  *)
(* schemas decide and what the handlers store: which schema accepts it     *)
(* (mip001Schema is tried first), the endpoint url and the card url.       *)
(***************************************************************************)
Metadata(schema, url, card) == [schema |-> schema, api_url |-> url, agent_card_url |-> card]

onchain_metadata(asset) ==
    CASE asset = A1 -> Metadata("mip001", SharedUrl, Null)
      [] asset = A2 -> Metadata("mip001", SharedUrl, Null)
      [] asset = A3 -> Metadata("mip002", OtherUrl, SharedUrl)
      [] asset = B1 -> Metadata("mip001", OtherUrl, Null)
      [] OTHER      -> Metadata("none", Null, Null)

(***************************************************************************)
(* The map mintedOrBurnedAssetsOfPolicy, as the sequence of its (unit,     *)
(* quantity) pairs in insertion order.  The input loop SETS the negated    *)
(* quantity; the output loop adds to an existing key or sets a new one.    *)
(***************************************************************************)
MapHas(map, unit) == \E i \in 1..Len(map) : map[i].unit = unit
MapGet(map, unit) == (CHOOSE i \in 1..Len(map) : map[i].unit = unit)
MapSet(map, unit, quantity) ==
    IF MapHas(map, unit)
       THEN [map EXCEPT ![MapGet(map, unit)] = Amount(unit, quantity)]
       ELSE Append(map, Amount(unit, quantity))

RECURSIVE InputLoop(_, _, _)
InputLoop(map, inputs, policyId) ==
    IF inputs = <<>> THEN map
    ELSE LET asset == Head(inputs)
         IN InputLoop(IF UnitStartsWith(asset.unit, policyId)
                         THEN MapSet(map, asset.unit, 0 - asset.quantity)
                         ELSE map,
                      Tail(inputs), policyId)

RECURSIVE OutputLoop(_, _, _)
OutputLoop(map, outputs, policyId) ==
    IF outputs = <<>> THEN map
    ELSE LET asset == Head(outputs)
         IN OutputLoop(IF UnitStartsWith(asset.unit, policyId)
                          THEN IF MapHas(map, asset.unit)
                                  THEN MapSet(map, asset.unit,
                                              map[MapGet(map, asset.unit)].quantity + asset.quantity)
                                  ELSE MapSet(map, asset.unit, asset.quantity)
                          ELSE map,
                       Tail(outputs), policyId)

mintedOrBurnedAssetsOfPolicy(hash, policyId) ==
    OutputLoop(InputLoop(<<>>, txsUtxos(hash).inputs, policyId),
               txsUtxos(hash).outputs, policyId)

(***************************************************************************)
(* getScriptsRedeemers(policyId, page): count=100, order=asc, pages from 1 *)
(***************************************************************************)
Min(a, b) == IF a < b THEN a ELSE b
Max(a, b) == IF a > b THEN a ELSE b

\* the pages of the provider in descending order, newest row first
getScriptsRedeemersDesc(policyId, page) ==
    LET rows == [i \in 1..Len(ledger[policyId]) |->
                    ledger[policyId][Len(ledger[policyId]) + 1 - i]]
        first == (page - 1) * PageSize + 1
        last == Min(page * PageSize, Len(rows))
    IN IF first > last THEN <<>> ELSE SubSeq(rows, first, last)

getScriptsRedeemers(policyId, page) ==
    LET rows == ledger[policyId]
        first == (page - 1) * PageSize + 1
        last == Min(page * PageSize, Len(rows))
    IN IF first > last THEN <<>> ELSE SubSeq(rows, first, last)

\* txs.findIndex(tx => tx.tx_hash === cursorTxHash), 0 for -1
findIndex(txs, cursorTxHash) ==
    IF \E i \in 1..Len(txs) : txs[i].tx_hash = cursorTxHash
       THEN CHOOSE i \in 1..Len(txs) :
              /\ txs[i].tx_hash = cursorTxHash
              /\ \A j \in 1..(i - 1) : txs[j].tx_hash # cursorTxHash
       ELSE 0

(***************************************************************************)
(* The entry store.  A row's id stands in one-to-one relation with its     *)
(* assetIdentifier (@unique), so the assetIdentifier serves as the id.     *)
(***************************************************************************)
HasEntry(asset) == \E e \in entries : e.assetIdentifier = asset
Entry(asset) == CHOOSE e \in entries : e.assetIdentifier = asset

StatusOf(store, asset) ==
    IF \E e \in store : e.assetIdentifier = asset
       THEN (CHOOSE e \in store : e.assetIdentifier = asset).status
       ELSE Null
DeregisteredAssets == {e.assetIdentifier : e \in {x \in entries : x.status = Deregistered}}

\* every probe counted as a success
UptimeIncrementAlways(status) == 1

UptimeIncrement(status) == IF status = Online THEN 1 ELSE 0

\* an insert in place of the upsert: no look-up of the row by assetIdentifier
UpsertEntryInserts(store, asset, sourceId, meta, status, version, t) ==
    store \cup
        {[assetIdentifier |-> asset,
          registrySourceId |-> sourceId,
          status |-> status,
          metadataVersion |-> version,
          apiBaseUrl |-> meta.api_url,
          agentCardUrl |-> meta.agent_card_url,
          lastUptimeCheck |-> t,
          updatedAt |-> t,
          uptimeCount |-> UptimeIncrement(status),
          uptimeCheckCount |-> 1,
          A2ASkills |-> 0, A2ASupportedInterfaces |-> 0, A2ACapabilities |-> 0]}

\* prisma.registryEntry.upsert of processMip001Entry / processMip002Entry
UpsertEntry(store, asset, sourceId, meta, status, version, t) ==
    IF \E e \in store : e.assetIdentifier = asset
       THEN LET old == CHOOSE e \in store : e.assetIdentifier = asset
            IN (store \ {old}) \cup
               {[old EXCEPT !.status = status,
                            !.registrySourceId = sourceId,
                            !.metadataVersion = version,
                            !.apiBaseUrl = meta.api_url,
                            !.agentCardUrl = meta.agent_card_url,
                            !.lastUptimeCheck = t,
                            !.updatedAt = t,
                            !.uptimeCount = @ + UptimeIncrement(status),
                            !.uptimeCheckCount = @ + 1]}
       ELSE store \cup
            {[assetIdentifier |-> asset,
              registrySourceId |-> sourceId,
              status |-> status,
              metadataVersion |-> version,
              apiBaseUrl |-> meta.api_url,
              agentCardUrl |-> meta.agent_card_url,
              lastUptimeCheck |-> t,
              updatedAt |-> t,
              uptimeCount |-> UptimeIncrement(status),
              uptimeCheckCount |-> 1,
              A2ASkills |-> 0, A2ASupportedInterfaces |-> 0, A2ACapabilities |-> 0]}

\* the status processMip001Entry derives from the initial probe (lines 175-180)
\* the probe's status taken as it is, whatever identifier the response carries
Mip001StatusOfProbe(isAvailable, asset) == isAvailable.status

Mip001Status(isAvailable, asset) ==
    IF isAvailable.returnedAgentIdentifier # Null
       THEN IF isAvailable.returnedAgentIdentifier = asset
               THEN isAvailable.status
               ELSE Invalid
       ELSE isAvailable.status

\* a card that passes agentCardSchema: at least one skill and one supported
\* interface, and here a capabilities object
AgentCard == [skills |-> 1, supportedInterfaces |-> 1, capabilities |-> 1]

\* fetchAndValidateAgentCard: the same decisions as checkA2AAgentCard; the
\* parsed card comes back with status Online only (agentCard is the sequence
\* of the card, empty for null)
fetchAndValidateAgentCard(url, r) ==
    [status |-> checkA2AAgentCard(url, r).status,
     agentCard |-> IF checkA2AAgentCard(url, r).status = Online THEN <<AgentCard>> ELSE <<>>]

\* sub-records written from placeholder data when there is no card
StoreAgentCardPlaceholder(store, asset, agentCard) ==
    {IF e.assetIdentifier = asset
        THEN [e EXCEPT !.A2ASkills = 1, !.A2ASupportedInterfaces = 1, !.A2ACapabilities = 1]
        ELSE e : e \in store}

\* an upsert that writes the empty card data when there is no card
StoreAgentCardWipes(store, asset, agentCard) ==
    {IF e.assetIdentifier = asset
        THEN IF agentCard = <<>>
                THEN [e EXCEPT !.A2ASkills = 0, !.A2ASupportedInterfaces = 0,
                               !.A2ACapabilities = 0]
                ELSE [e EXCEPT !.A2ASkills = agentCard[1].skills,
                               !.A2ASupportedInterfaces = agentCard[1].supportedInterfaces,
                               !.A2ACapabilities = agentCard[1].capabilities]
        ELSE e : e \in store}

\* the A2ASkills, A2ASupportedInterfaces and A2ACapabilities parts of the
\* upsert: written from the card, left alone when agentCard is null
StoreAgentCard(store, asset, agentCard) ==
    IF agentCard = <<>> THEN store
    ELSE {IF e.assetIdentifier = asset
             THEN [e EXCEPT !.A2ASkills = agentCard[1].skills,
                            !.A2ASupportedInterfaces = agentCard[1].supportedInterfaces,
                            !.A2ACapabilities = agentCard[1].capabilities]
             ELSE e : e \in store}

\* a burn written as an upsert: a row is created Deregistered when none exists
BurnEntryCreates(store, asset, t) ==
    IF \E e \in store : e.assetIdentifier = asset
       THEN LET old == CHOOSE e \in store : e.assetIdentifier = asset
            IN (store \ {old}) \cup
               {[old EXCEPT !.status = Deregistered, !.updatedAt = t]}
       ELSE store \cup
               {[assetIdentifier |-> asset, registrySourceId |-> "s1",
                 status |-> Deregistered, metadataVersion |-> 1,
                 apiBaseUrl |-> Null, agentCardUrl |-> Null,
                 lastUptimeCheck |-> t, updatedAt |-> t,
                 uptimeCount |-> 0, uptimeCheckCount |-> 0,
                 A2ASkills |-> 0, A2ASupportedInterfaces |-> 0, A2ACapabilities |-> 0]}

\* a burn that finds the row and leaves it as it is
BurnEntryKeeps(store, asset, t) == store

\* the burn transaction: findUnique, then update status if the row exists
BurnEntry(store, asset, t) ==
    IF \E e \in store : e.assetIdentifier = asset
       THEN LET old == CHOOSE e \in store : e.assetIdentifier = asset
            IN (store \ {old}) \cup
               {[old EXCEPT !.status = Deregistered, !.updatedAt = t]}
       ELSE store

(***************************************************************************)
(* The row trigger set_status_updated_at (BEFORE INSERT, BEFORE UPDATE):   *)
(* an insert keeps a given statusUpdatedAt or takes NOW(); an update       *)
(* takes NOW() when the status IS DISTINCT FROM the old one.               *)
(***************************************************************************)
\* a trigger that stamps every update
set_status_updated_at_always(TG_OP, OLDROW, NEWROW, t) ==
    IF TG_OP = "INSERT"
       THEN IF "statusUpdatedAt" \in DOMAIN NEWROW THEN NEWROW ELSE NEWROW @@ [statusUpdatedAt |-> t]
       ELSE [NEWROW EXCEPT !.statusUpdatedAt = t]

set_status_updated_at(TG_OP, OLDROW, NEWROW, t) ==
    IF TG_OP = "INSERT"
       THEN IF "statusUpdatedAt" \in DOMAIN NEWROW THEN NEWROW ELSE NEWROW @@ [statusUpdatedAt |-> t]
    ELSE IF NEWROW.status # OLDROW.status
       THEN [NEWROW EXCEPT !.statusUpdatedAt = t]
    ELSE NEWROW

\* the store after a statement: every row it holds has gone through the
\* trigger, as an update of the row of the same assetIdentifier or as an insert
Written(store, written, t) ==
    {IF \E o \in store : o.assetIdentifier = n.assetIdentifier
        THEN set_status_updated_at("UPDATE",
                 CHOOSE o \in store : o.assetIdentifier = n.assetIdentifier, n, t)
        ELSE set_status_updated_at("INSERT", n, n, t) : n \in written}

(***************************************************************************)
(* tryAcquire(mutex).acquire(): rejects at once when the mutex is locked.  *)
(***************************************************************************)
\* a mutex that is no mutex: every caller gets in
tryAcquireAlways(locked) == "acquired"

\* mutex.acquire() without tryAcquire: the caller waits for the release
tryAcquireWaits(locked) == IF locked THEN "queued" ELSE "acquired"

tryAcquire(locked) == IF locked THEN "rejected" ELSE "acquired"

FaultKinds == {"page", "utxos", "asset", "upsert", "find"}

(***************************************************************************)
(* updateLatestCardanoRegistryEntries.  A frame is one invocation; a task  *)
(* is the async callback of sources.map for one source.                    *)
(***************************************************************************)
IdleTask ==
    [pc |-> "done", cursorTxHash |-> Null, page |-> 0, txs |-> <<>>,
     transactionsOnPage |-> 0, i |-> 0, map |-> <<>>, nets |-> <<>>]

\* `deregistered` records the assets that were Deregistered when the invocation
\* began; only the properties read it
IdleScan == [pc |-> "idle", deregistered |-> {},
             task |-> [s \in DOMAIN sources |-> IdleTask]]

\* the local control flow between two awaits of the page loop: rows whose
\* purpose is not 'mint' are skipped; at the end of the page the loop goes on
\* to the next page while the fetched page held any row
\* a row loop that handles every row, whatever its purpose
AdvanceEveryRow(t) ==
    IF t.i > Len(t.txs)
       THEN [t EXCEPT !.page = @ + 1,
                      !.pc = IF t.transactionsOnPage > 0 THEN "page" ELSE "done"]
    ELSE [t EXCEPT !.pc = "utxos"]

\* a page loop that ends at the first page shorter than the page size
RECURSIVE AdvanceUntilShortPage(_)
AdvanceUntilShortPage(t) ==
    IF t.i > Len(t.txs)
       THEN [t EXCEPT !.page = @ + 1,
                      !.pc = IF t.transactionsOnPage >= PageSize THEN "page" ELSE "done"]
    ELSE IF t.txs[t.i].purpose # "mint"
       THEN AdvanceUntilShortPage([t EXCEPT !.i = @ + 1])
    ELSE [t EXCEPT !.pc = "utxos"]

RECURSIVE Advance(_)
Advance(t) ==
    IF t.i > Len(t.txs)
       THEN [t EXCEPT !.page = @ + 1,
                      !.pc = IF t.transactionsOnPage > 0 THEN "page" ELSE "done"]
    ELSE IF t.txs[t.i].purpose # "mint"
       THEN Advance([t EXCEPT !.i = @ + 1])
    ELSE [t EXCEPT !.pc = "utxos"]

AfterAsset(t) == [t EXCEPT !.pc = IF t.map = <<>> THEN "cursor" ELSE "asset"]

\* a failed fetch that is logged and stepped over: the loop goes on with the
\* row after the failing one
AbortSkipsRow(t) == Advance([t EXCEPT !.i = @ + 1])

\* lines 776-781: the catch of the source's callback logs the error, and the
\* callback returns
Abort(t) == [t EXCEPT !.pc = "done"]

\* lines 605-617: the first findMany and the attempt at the mutex
ScanEnter(c) ==
    IF DOMAIN sources = {}
          THEN UNCHANGED <<scan, updateMutex, skipped>>
       ELSE IF tryAcquire(updateMutex) = "acquired"
          THEN /\ updateMutex' = TRUE
               /\ scan' = [scan EXCEPT ![c].pc = "locked",
                                        ![c].deregistered = DeregisteredAssets]
               /\ UNCHANGED skipped
       ELSE IF tryAcquire(updateMutex) = "rejected"
          THEN /\ skipped' = [skipped EXCEPT !.scan = @ + 1]
               /\ UNCHANGED <<scan, updateMutex>>
       ELSE /\ scan' = [scan EXCEPT ![c].pc = "queued"]
            /\ UNCHANGED <<updateMutex, skipped>>

ScanCall(c) ==
    /\ scan[c].pc = "idle"
    /\ runs.scan > 0
    /\ runs' = [runs EXCEPT !.scan = @ - 1]
    /\ ScanEnter(c)
    /\ UNCHANGED <<query, converted, consumer, rewound, now, entries, sources, ledger, mempool, net, faults, healthMutex, hc>>

\* release(): the mutex goes to a waiter if there is one
ReleaseUpdateMutex(c) ==
    IF \E w \in DOMAIN scan : scan[w].pc = "queued"
       THEN \E w \in {x \in DOMAIN scan : scan[x].pc = "queued"} :
              /\ scan' = [scan EXCEPT ![c] = IdleScan, ![w].pc = "locked"]
              /\ UNCHANGED updateMutex
       ELSE /\ scan' = [scan EXCEPT ![c] = IdleScan]
            /\ updateMutex' = FALSE

\* lines 619-636: the second findMany, the two checks of all sources
ScanLoadSources(c) ==
    /\ scan[c].pc = "locked"
    /\ \/ /\ "find" \in faults
          /\ scan' = [scan EXCEPT ![c] = IdleScan]
          /\ UNCHANGED updateMutex
       \/ /\ \E s \in DOMAIN sources : sources[s].policyId = Null
          /\ ReleaseUpdateMutex(c)
       \/ /\ \A s \in DOMAIN sources : sources[s].policyId # Null
          /\ scan' = [scan EXCEPT ![c] =
                 [pc |-> "run",
                  deregistered |-> scan[c].deregistered,
                  task |-> [s \in DOMAIN sources |->
                      [IdleTask EXCEPT !.pc = "page",
                                       !.cursorTxHash = sources[s].lastTxId,
                                       !.page = sources[s].lastCheckedPage]]]]
          /\ UNCHANGED updateMutex
    /\ UNCHANGED <<query, converted, consumer, rewound, now, entries, sources, ledger, mempool, net, faults, healthMutex, hc,
                   runs, skipped>>

\* lines 658-674: fetch a page, cut it after the cursor transaction
ScanFetchPage(c, s) ==
    /\ scan[c].pc = "run"
    /\ scan[c].task[s].pc = "page"
    /\ LET t == scan[c].task[s]
           txs == getScriptsRedeemers(sources[s].policyId, t.page)
           existingTx == findIndex(txs, t.cursorTxHash)
       IN \/ /\ "page" \in faults \/ sources[s].rpcProviderApiKey # "valid"
             /\ scan' = [scan EXCEPT ![c].task[s] = Abort(t)]
          \/ /\ sources[s].rpcProviderApiKey = "valid"
             /\ scan' = [scan EXCEPT ![c].task[s] =
                 Advance([t EXCEPT !.transactionsOnPage = Len(txs),
                                   !.txs = SubSeq(txs, existingTx + 1, Len(txs)),
                                   !.i = 1])]
    /\ UNCHANGED <<query, converted, consumer, rewound, now, entries, sources, ledger, mempool, net, faults, updateMutex,
                   healthMutex, hc, runs, skipped>>

\* lines 692-721: fetch the transaction's utxos and net the quantities
ScanFetchUtxos(c, s) ==
    /\ scan[c].pc = "run"
    /\ scan[c].task[s].pc = "utxos"
    /\ LET t == scan[c].task[s]
       IN \/ /\ "utxos" \in faults
             /\ scan' = [scan EXCEPT ![c].task[s] = Abort(t)]
          \/ LET map == mintedOrBurnedAssetsOfPolicy(t.txs[t.i].tx_hash,
                                                      sources[s].policyId)
             IN scan' = [scan EXCEPT ![c].task[s] =
                            AfterAsset([t EXCEPT !.map = map, !.nets = map])]
    /\ UNCHANGED <<query, converted, consumer, rewound, now, entries, sources, ledger, mempool, net, faults, updateMutex,
                   healthMutex, hc, runs, skipped>>

\* lines 723-768: one (asset, quantity) of the map: a mint, a burn or nothing
ScanAsset(c, s) ==
    /\ scan[c].pc = "run"
    /\ scan[c].task[s].pc = "asset"
    /\ LET t == scan[c].task[s]
           asset == Head(t.map).unit
           quantity == Head(t.map).quantity
           meta == onchain_metadata(asset)
           next == AfterAsset([t EXCEPT !.map = Tail(@)])
       IN IF quantity > 0
             THEN \/ /\ "asset" \in faults
                     /\ entries' = entries
                     /\ scan' = [scan EXCEPT ![c].task[s] = next]
                  \/ /\ meta.schema = "none"
                     /\ entries' = entries
                     /\ scan' = [scan EXCEPT ![c].task[s] = next]
                  \/ /\ meta.schema = "mip001"
                     /\ \E r \in net[meta.api_url] :
                          LET isAvailable == checkAndVerifyEndpoint(meta.api_url, r)
                              status == Mip001Status(isAvailable, asset)
                          IN \/ /\ "upsert" \in faults
                                /\ entries' = entries
                                /\ scan' = [scan EXCEPT ![c].task[s].pc = "done"]
                             \/ /\ entries' = Written(entries,
                                        UpsertEntry(entries, asset, s,
                                            [meta EXCEPT !.agent_card_url = Null],
                                            status, 1, now), now)
                                /\ scan' = [scan EXCEPT ![c].task[s] = next]
                  \/ /\ meta.schema = "mip002"
                     /\ \E r \in net[meta.agent_card_url] :
                          LET fetched == fetchAndValidateAgentCard(meta.agent_card_url, r)
                          IN \/ /\ "upsert" \in faults
                                /\ entries' = entries
                                /\ scan' = [scan EXCEPT ![c].task[s].pc = "done"]
                             \/ /\ entries' = Written(entries,
                                        StoreAgentCard(
                                            UpsertEntry(entries, asset, s, meta,
                                                        fetched.status, 2, now),
                                            asset, fetched.agentCard), now)
                                /\ scan' = [scan EXCEPT ![c].task[s] = next]
          ELSE IF quantity < 0
             THEN /\ entries' = Written(entries, BurnEntry(entries, asset, now), now)
                  /\ scan' = [scan EXCEPT ![c].task[s] = next]
          ELSE /\ entries' = entries
               /\ scan' = [scan EXCEPT ![c].task[s] = next]
    /\ UNCHANGED <<query, converted, consumer, rewound, now, sources, ledger, mempool, net, faults, updateMutex, healthMutex,
                   hc, runs, skipped>>

\* lines 769-772: persist the cursor, then go on with the next row
ScanCursor(c, s) ==
    /\ scan[c].pc = "run"
    /\ scan[c].task[s].pc = "cursor"
    /\ LET t == scan[c].task[s]
       IN /\ sources' = [sources EXCEPT ![s].lastCheckedPage = t.page,
                                        ![s].lastTxId = t.txs[t.i].tx_hash]
          /\ scan' = [scan EXCEPT ![c].task[s] = Advance([t EXCEPT !.i = @ + 1])]
    /\ UNCHANGED <<query, converted, consumer, rewound, now, entries, ledger, mempool, net, faults, updateMutex, healthMutex,
                   hc, runs, skipped>>

\* lines 784-786: every task has ended, finally release()
ScanRelease(c) ==
    /\ scan[c].pc = "run"
    /\ \A s \in DOMAIN sources : scan[c].task[s].pc = "done"
    /\ ReleaseUpdateMutex(c)
    /\ UNCHANGED <<query, converted, consumer, rewound, now, entries, sources, ledger, mempool, net, faults, healthMutex, hc,
                   runs, skipped>>

\* the chain confirms the next transaction of a policy
Confirm(p) ==
    /\ mempool[p] # <<>>
    /\ ledger' = [ledger EXCEPT ![p] = Append(@, Head(mempool[p]))]
    /\ mempool' = [mempool EXCEPT ![p] = Tail(@)]
    /\ UNCHANGED <<query, converted, consumer, rewound, now, entries, sources, net, faults, updateMutex, healthMutex,
                   scan, hc, runs, skipped>>

\* an operator sets the cursor of a source back while the scanner is not
\* running: the transaction, the page, or both, to an earlier one
Rewind(s) ==
    /\ \A c \in DOMAIN scan : scan[c].pc = "idle"
    /\ ~updateMutex
    /\ rewound.at = 0
    /\ sources[s].policyId \in DOMAIN ledger
    /\ LET rows == ledger[sources[s].policyId]
           at == IF \E i \in 1..Len(rows) : rows[i].tx_hash = sources[s].lastTxId
                    THEN CHOOSE i \in 1..Len(rows) : rows[i].tx_hash = sources[s].lastTxId
                    ELSE 0
       IN /\ at > 0
          /\ \E i \in 0..at, page \in 1..sources[s].lastCheckedPage :
               /\ i < at \/ page < sources[s].lastCheckedPage
               /\ i > 0 => rows[i].purpose = "mint"
               /\ sources' = [sources EXCEPT
                      ![s].lastTxId = IF i = 0 THEN Null ELSE rows[i].tx_hash,
                      ![s].lastCheckedPage = page]
          /\ rewound' = [at |-> at,
                         status |-> [a \in Units |-> StatusOf(entries, a)]]
    /\ UNCHANGED <<now, entries, ledger, mempool, net, faults, updateMutex, healthMutex,
                   scan, hc, runs, skipped, consumer, converted, query>>

\* time passes
Tick ==
    /\ now < MaxTime
    /\ now' = now + 1
    /\ UNCHANGED <<query, converted, consumer, rewound, entries, sources, ledger, mempool, net, faults, updateMutex,
                   healthMutex, scan, hc, runs, skipped>>

(***************************************************************************)
(* updateHealthCheck and checkVerifyAndUpdateRegistryEntries               *)
(***************************************************************************)
\* time is counted in units of two minutes: 0.2 retries of ten minutes
TenMinutes == 5
FortyEightHours == 1440

AssetRank(asset) ==
    CASE asset = A1 -> 1 [] asset = A2 -> 2 [] asset = A3 -> 3 [] OTHER -> 4

\* findMany ... orderBy: the rows of `set` in ascending order of `key`
\* (rows with equal keys in the order of their identifiers)
RECURSIVE OrderBy(_, _)
OrderBy(set, field) ==
    IF set = {} THEN <<>>
    ELSE LET first == CHOOSE e \in set : \A f \in set :
                          \/ e[field] < f[field]
                          \/ /\ e[field] = f[field]
                             /\ AssetRank(e.assetIdentifier) <= AssetRank(f.assetIdentifier)
         IN <<first>> \o OrderBy(set \ {first}, field)

Take(seq, n) == SubSeq(seq, 1, Min(n, Len(seq)))

Range(seq) == {seq[i] : i \in 1..Len(seq)}

\* the selection of the Online/Offline rows without the take
SelectOnlineOfflineUntaken(store, sourceId, onlyEntriesAfter) ==
    OrderBy({e \in store : /\ e.registrySourceId = sourceId
                           /\ e.status \in {Online, Offline}
                           /\ e.lastUptimeCheck <= onlyEntriesAfter},
            "lastUptimeCheck")

\* the selection of the Online/Offline rows with the latest check first
SelectOnlineOfflineNewestFirst(store, sourceId, onlyEntriesAfter) ==
    LET asc == OrderBy({e \in store : /\ e.registrySourceId = sourceId
                                      /\ e.status \in {Online, Offline}
                                      /\ e.lastUptimeCheck <= onlyEntriesAfter},
                       "lastUptimeCheck")
    IN Take([i \in 1..Len(asc) |-> asc[Len(asc) + 1 - i]], OnlineOfflineTake)

\* lines 486-501: the Online/Offline rows that are due, oldest check first
SelectOnlineOffline(store, sourceId, onlyEntriesAfter) ==
    Take(OrderBy({e \in store : /\ e.registrySourceId = sourceId
                                /\ e.status \in {Online, Offline}
                                /\ e.lastUptimeCheck <= onlyEntriesAfter},
                 "lastUptimeCheck"),
         OnlineOfflineTake)

\* the selection of the Invalid rows without the retry cap
SelectInvalidUncapped(store, sourceId, onlyEntriesAfter) ==
    Take(OrderBy({e \in store : /\ e.registrySourceId = sourceId
                                /\ e.status \in {Invalid}
                                /\ e.lastUptimeCheck <= onlyEntriesAfter},
                 "updatedAt"),
         InvalidTake)

\* lines 505-521: the Invalid rows below the retry cap, least recently updated first
SelectInvalid(store, sourceId, onlyEntriesAfter) ==
    Take(OrderBy({e \in store : /\ e.registrySourceId = sourceId
                                /\ e.status \in {Invalid}
                                /\ e.lastUptimeCheck <= onlyEntriesAfter
                                /\ e.uptimeCheckCount <= InvalidRetryCap},
                 "updatedAt"),
         InvalidTake)

\* lines 527-531, times five so that Math.max(0.2, n) stays an integer
RetriesTimesFive(e) == Max(1, 5 * (e.uptimeCheckCount - e.uptimeCount))
staggeredWaitTime(e) ==
    Min((TenMinutes * RetriesTimesFive(e)) \div 5, FortyEightHours)

\* no backoff: every candidate passes
filteredOutInvalidStaggeredEntriesAll(invalidEntries, onlyEntriesAfter) == invalidEntries

\* the filter with the boundary included
filteredOutInvalidStaggeredEntriesInclusive(invalidEntries, onlyEntriesAfter) ==
    LET due(e) == e.lastUptimeCheck + staggeredWaitTime(e) <= onlyEntriesAfter
    IN SelectSeq(invalidEntries, due)

\* lines 525-537
filteredOutInvalidStaggeredEntries(invalidEntries, onlyEntriesAfter) ==
    LET due(e) == e.lastUptimeCheck + staggeredWaitTime(e) < onlyEntriesAfter
    IN SelectSeq(invalidEntries, due)

\* lines 538-542
excludedEntries(invalidEntries, filtered) ==
    LET found(e) == \E e2 \in Range(filtered) : e2.assetIdentifier = e.assetIdentifier
    IN SelectSeq(invalidEntries, found)

\* lines 554-558
invalidBatch(filtered) == Take(filtered, InvalidBatchMax)

\* one key per entry of the batch, shared or not
neededLookupsPerEntry(registryEntries) ==
    [i \in 1..Len(registryEntries) |-> LookupKey(registryEntries[i])]

\* lines 311-318: the distinct keys of the batch, in order of first occurrence
neededLookups(registryEntries) ==
    LET first == {i \in 1..Len(registryEntries) :
                     \A j \in 1..(i - 1) :
                        LookupKey(registryEntries[j]) # LookupKey(registryEntries[i])}
        place(i) == Cardinality({j \in first : j <= i})
    IN [k \in 1..Cardinality(first) |->
           LookupKey(registryEntries[CHOOSE i \in first : place(i) = k])]

\* lines 323-330: one key dispatched to the checker of its kind
Lookup(key, r) ==
    LET result == IF key.isA2A THEN checkA2AAgentCard(key.url, r)
                               ELSE checkAndVerifyEndpoint(key.url, r)
    IN [key |-> key, status |-> result.status,
        agentIdentifier |-> result.returnedAgentIdentifier, sent |-> result.sent]

\* the individual check without the rule for an undefined date
checkAndVerifyRegistryEntryOfDate(registryEntry, minHealthCheckDate, r) ==
    IF minHealthCheckDate # <<>> /\ registryEntry.lastUptimeCheck > minHealthCheckDate[1]
       THEN CheckResult(registryEntry.status, Null, FALSE)
    ELSE IF registryEntry.metadataVersion = 2 /\ registryEntry.agentCardUrl # Null
       THEN checkA2AAgentCard(registryEntry.agentCardUrl, r)
    ELSE checkAndVerifyEndpoint(registryEntry.apiBaseUrl, r)

\* lines 235-280: the individual check.  minHealthCheckDate is the sequence
\* of the date, empty for undefined; an undefined date counts as the epoch,
\* which every lastUptimeCheck is later than.  The result says whether a
\* request was sent.
checkAndVerifyRegistryEntry(registryEntry, minHealthCheckDate, r) ==
    IF minHealthCheckDate = <<>> \/ registryEntry.lastUptimeCheck > minHealthCheckDate[1]
       THEN CheckResult(registryEntry.status, Null, FALSE)
    ELSE IF registryEntry.metadataVersion = 2 /\ registryEntry.agentCardUrl # Null
       THEN checkA2AAgentCard(registryEntry.agentCardUrl, r)
    ELSE LET result == checkAndVerifyEndpoint(registryEntry.apiBaseUrl, r)
         IN IF result.returnedAgentIdentifier # Null
               THEN CheckResult(IF result.returnedAgentIdentifier = registryEntry.assetIdentifier
                                   THEN Online ELSE Invalid,
                                Null, result.sent)
               ELSE result

\* lines 360-394: the status of one entry of the batch
HasLookup(completedLookups, key) == \E i \in 1..Len(completedLookups) : completedLookups[i].key = key
GetLookup(completedLookups, key) ==
    completedLookups[CHOOSE i \in 1..Len(completedLookups) :
                        /\ completedLookups[i].key = key
                        /\ \A j \in (i + 1)..Len(completedLookups) : completedLookups[j].key # key]

\* the status of the lookup for every entry, whatever identifier it carries
ResolveStatusOfLookup(entry, completedLookups, minHealthCheckDate, r) ==
    IF HasLookup(completedLookups, LookupKey(entry))
       THEN GetLookup(completedLookups, LookupKey(entry)).status
       ELSE checkAndVerifyRegistryEntry(entry, <<minHealthCheckDate>>, r).status

ResolveStatus(entry, completedLookups, minHealthCheckDate, r) ==
    IF HasLookup(completedLookups, LookupKey(entry))
       THEN LET lookup == GetLookup(completedLookups, LookupKey(entry))
            IN IF lookup.agentIdentifier # Null
                  THEN IF lookup.agentIdentifier = entry.assetIdentifier
                          THEN lookup.status ELSE Invalid
                  ELSE lookup.status
       ELSE checkAndVerifyRegistryEntry(entry, <<minHealthCheckDate>>, r).status

\* the update without the count of the check
UpdateCheckedUncounted(store, id, status, t) ==
    IF \E e \in store : e.assetIdentifier = id
       THEN LET old == CHOOSE e \in store : e.assetIdentifier = id
            IN (store \ {old}) \cup
               {[old EXCEPT !.status = status,
                            !.uptimeCount = @ + UptimeIncrement(status),
                            !.lastUptimeCheck = t,
                            !.updatedAt = t]}
       ELSE store

\* lines 434-441: the update of one reconciled entry
UpdateChecked(store, id, status, t) ==
    IF \E e \in store : e.assetIdentifier = id
       THEN LET old == CHOOSE e \in store : e.assetIdentifier = id
            IN (store \ {old}) \cup
               {[old EXCEPT !.status = status,
                            !.uptimeCount = @ + UptimeIncrement(status),
                            !.uptimeCheckCount = @ + 1,
                            !.lastUptimeCheck = t,
                            !.updatedAt = t]}
       ELSE store

\* the entries that were not reconciled left as they are
UpdateFailedKeeps(store, failedIds, t) == store

\* lines 412-415: updateMany of the entries that were not reconciled
UpdateFailed(store, failedIds, t) ==
    {IF e.assetIdentifier \in failedIds
        THEN [e EXCEPT !.status = Invalid, !.lastUptimeCheck = t, !.updatedAt = t]
        ELSE e : e \in store}

\* lines 546-553: the bump of updatedAt
Touch(store, ids, t) ==
    {IF e.assetIdentifier \in ids THEN [e EXCEPT !.updatedAt = t] ELSE e : e \in store}

IdleHcTask ==
    [pc |-> "done", entries |-> <<>>, invalidEntries |-> <<>>, filtered |-> <<>>,
     excluded |-> <<>>,
     registryEntries |-> <<>>, completedLookups |-> <<>>, successful |-> <<>>]

IdleHc == [pc |-> "idle", onlyEntriesAfter |-> 0, deregistered |-> {},
           task |-> [s \in DOMAIN sources |-> IdleHcTask]]

HcCall(c) ==
    /\ hc[c].pc = "idle"
    /\ runs.hc > 0
    /\ runs' = [runs EXCEPT !.hc = @ - 1]
    /\ IF DOMAIN sources = {}
          THEN UNCHANGED <<hc, healthMutex, skipped>>
       ELSE IF tryAcquire(healthMutex) = "acquired"
          THEN /\ healthMutex' = TRUE
               /\ hc' = [hc EXCEPT ![c].pc = "locked", ![c].onlyEntriesAfter = now,
                                    ![c].deregistered = DeregisteredAssets]
               /\ UNCHANGED skipped
       ELSE IF tryAcquire(healthMutex) = "rejected"
          THEN /\ skipped' = [skipped EXCEPT !.hc = @ + 1]
               /\ UNCHANGED <<hc, healthMutex>>
       ELSE /\ hc' = [hc EXCEPT ![c].pc = "queued", ![c].onlyEntriesAfter = now]
            /\ UNCHANGED <<healthMutex, skipped>>
    /\ UNCHANGED <<query, converted, consumer, rewound, now, entries, sources, ledger, mempool, net, faults, updateMutex, scan>>

ReleaseHealthMutex(c) ==
    IF \E w \in DOMAIN hc : hc[w].pc = "queued"
       THEN \E w \in {x \in DOMAIN hc : hc[x].pc = "queued"} :
              /\ hc' = [hc EXCEPT ![c] = IdleHc, ![w].pc = "locked"]
              /\ UNCHANGED healthMutex
       ELSE /\ hc' = [hc EXCEPT ![c] = IdleHc]
            /\ healthMutex' = FALSE

\* lines 472-480: the findMany of the sources
HcLoadSources(c) ==
    /\ hc[c].pc = "locked"
    /\ \/ /\ "find" \in faults
          /\ hc' = [hc EXCEPT ![c] = IdleHc]
       \/ hc' = [hc EXCEPT ![c].pc = "run",
                           ![c].task = [s \in DOMAIN sources |->
                                           [IdleHcTask EXCEPT !.pc = "select"]]]
    /\ UNCHANGED <<query, converted, consumer, rewound, now, entries, sources, ledger, mempool, net, faults, updateMutex,
                   healthMutex, scan, runs, skipped>>

\* lines 486-501
HcSelect(c, s) ==
    /\ hc[c].pc = "run"
    /\ hc[c].task[s].pc = "select"
    /\ hc' = [hc EXCEPT ![c].task[s].pc = "selectInvalid",
                        ![c].task[s].entries =
                            SelectOnlineOffline(entries, s, hc[c].onlyEntriesAfter)]
    /\ UNCHANGED <<query, converted, consumer, rewound, now, entries, sources, ledger, mempool, net, faults, updateMutex,
                   healthMutex, scan, runs, skipped>>

\* lines 505-542
HcSelectInvalid(c, s) ==
    /\ hc[c].pc = "run"
    /\ hc[c].task[s].pc = "selectInvalid"
    /\ LET invalidEntries == SelectInvalid(entries, s, hc[c].onlyEntriesAfter)
           filtered == filteredOutInvalidStaggeredEntries(invalidEntries,
                                                          hc[c].onlyEntriesAfter)
       IN hc' = [hc EXCEPT ![c].task[s].pc = "touch",
                           ![c].task[s].invalidEntries = invalidEntries,
                           ![c].task[s].filtered = filtered,
                           ![c].task[s].excluded = excludedEntries(invalidEntries, filtered),
                           ![c].task[s].registryEntries =
                               hc[c].task[s].entries \o invalidBatch(filtered)]
    /\ UNCHANGED <<query, converted, consumer, rewound, now, entries, sources, ledger, mempool, net, faults, updateMutex,
                   healthMutex, scan, runs, skipped>>

\* lines 546-553
HcTouch(c, s) ==
    /\ hc[c].pc = "run"
    /\ hc[c].task[s].pc = "touch"
    /\ entries' = Written(entries,
                    Touch(entries,
                          {e.assetIdentifier : e \in Range(hc[c].task[s].excluded)}, now),
                    now)
    /\ hc' = [hc EXCEPT ![c].task[s].pc = "lookups"]
    /\ UNCHANGED <<query, converted, consumer, rewound, now, sources, ledger, mempool, net, faults, updateMutex, healthMutex,
                   scan, runs, skipped>>

\* lines 348-353: the entries whose reconciliation does not throw
Reconciled(registryEntries) ==
    SelectSeq(registryEntries, LAMBDA e : sources[e.registrySourceId].policyId # Null)

\* lines 311-406: the probes of the distinct keys, then the status of each
\* entry that reconciles
HcLookups(c, s) ==
    /\ hc[c].pc = "run"
    /\ hc[c].task[s].pc = "lookups"
    /\ LET t == hc[c].task[s]
           needed == neededLookups(t.registryEntries)
       IN \E rs \in [1..Len(needed) -> UNION {net[u] : u \in DOMAIN net}] :
            /\ \A i \in 1..Len(needed) : rs[i] \in net[needed[i].url]
            /\ LET completedLookups == [i \in 1..Len(needed) |-> Lookup(needed[i], rs[i])]
               IN hc' = [hc EXCEPT
                    ![c].task[s].pc = "updateFailed",
                    ![c].task[s].completedLookups = completedLookups,
                    ![c].task[s].successful =
                        [i \in 1..Len(Reconciled(t.registryEntries)) |->
                            [id |-> Reconciled(t.registryEntries)[i].assetIdentifier,
                             status |-> ResolveStatus(Reconciled(t.registryEntries)[i],
                                                      completedLookups,
                                                      hc[c].onlyEntriesAfter,
                                                      RespDown)]]]
    /\ UNCHANGED <<query, converted, consumer, rewound, now, entries, sources, ledger, mempool, net, faults, updateMutex,
                   healthMutex, scan, runs, skipped>>

\* lines 408-415
HcUpdateFailed(c, s) ==
    /\ hc[c].pc = "run"
    /\ hc[c].task[s].pc = "updateFailed"
    /\ LET t == hc[c].task[s]
           failedIds == {e.assetIdentifier : e \in Range(t.registryEntries)}
                           \ {x.id : x \in Range(t.successful)}
       IN entries' = Written(entries, UpdateFailed(entries, failedIds, now), now)
    /\ hc' = [hc EXCEPT ![c].task[s].pc =
                 IF hc[c].task[s].successful = <<>> THEN "done" ELSE "update"]
    /\ UNCHANGED <<query, converted, consumer, rewound, now, sources, ledger, mempool, net, faults, updateMutex, healthMutex,
                   scan, runs, skipped>>

\* lines 418-450: the updates, one after the other; an update that throws is
\* logged and the loop goes on
HcUpdate(c, s) ==
    /\ hc[c].pc = "run"
    /\ hc[c].task[s].pc = "update"
    /\ LET x == Head(hc[c].task[s].successful)
       IN \E thrown \in (IF "update" \in faults THEN BOOLEAN ELSE {FALSE}) :
            entries' = IF thrown THEN entries
                       ELSE Written(entries, UpdateChecked(entries, x.id, x.status, now), now)
    /\ hc' = [hc EXCEPT ![c].task[s].successful = Tail(@),
                        ![c].task[s].pc =
                            IF Len(hc[c].task[s].successful) = 1 THEN "done" ELSE "update"]
    /\ UNCHANGED <<query, converted, consumer, rewound, now, sources, ledger, mempool, net, faults, updateMutex, healthMutex,
                   scan, runs, skipped>>

\* lines 568-570: finally release()
HcRelease(c) ==
    /\ hc[c].pc = "run"
    /\ \A s \in DOMAIN sources : hc[c].task[s].pc = "done"
    /\ ReleaseHealthMutex(c)
    /\ UNCHANGED <<query, converted, consumer, rewound, now, entries, sources, ledger, mempool, net, faults, updateMutex, scan,
                   runs, skipped>>

(***************************************************************************)
(* getRegistryEntries: the registry query.  It runs the scanner, reads the *)
(* entries whose status the filter allows and hands them, with the         *)
(* caller's minHealthCheckDate, to checkVerifyAndUpdateRegistryEntries.    *)
(* The limit of the query is larger than the store: the first findMany     *)
(* returns every row and the loop ends after one round.                    *)
(***************************************************************************)
MaxQueryRuns == 2

\* filter.status of the request: absent, or a list of statuses
QueryFilters == {{}, {Deregistered}, {Online, Offline, Invalid}}

\* minHealthCheckDate of the request: absent, or a date around the last checks
QueryDates == {<<>>, <<-2>>, <<-1>>, <<0>>}

\* registry-entry.service.ts lines 19-22
allowedStatuses(filterStatus) == IF filterStatus # {} THEN filterStatus ELSE {Online}

\* findMany of getRegistryEntry: where status in allowedStatuses, newest row
\* first; rows are created in the order of their asset identifiers
getRegistryEntry(store, statuses) ==
    LET RECURSIVE Ordered(_)
        Ordered(S) ==
            IF S = {} THEN <<>>
            ELSE LET first == CHOOSE x \in S : \A y \in S :
                                  AssetRank(x.assetIdentifier) >= AssetRank(y.assetIdentifier)
                 IN <<first>> \o Ordered(S \ {first})
    IN Ordered({e \in store : e.status \in statuses})

\* nobody asking
IdleQuery ==
    [pc |-> "idle", calls |-> 0, allowedStatuses |-> {}, minHealthCheckDate |-> <<>>,
     registryEntries |-> <<>>, completedLookups |-> <<>>, successful |-> <<>>]

\* registry-entry.service.ts line 34: the request arrives and calls the scanner
QueryCall(c) ==
    /\ query.pc = "idle"
    /\ query.calls < MaxQueryRuns
    /\ scan[c].pc = "idle"
    /\ \E filterStatus \in QueryFilters, minHealthCheckDate \in QueryDates :
         query' = [query EXCEPT !.pc = "scan", !.calls = @ + 1,
                                !.allowedStatuses = allowedStatuses(filterStatus),
                                !.minHealthCheckDate = minHealthCheckDate]
    /\ ScanEnter(c)
    /\ UNCHANGED <<converted, consumer, rewound, now, entries, sources, ledger, mempool, net, faults, healthMutex, hc, runs>>

\* registry-entry.service.ts lines 41-56 and health-check.service.ts line 301:
\* the scanner has returned; the rows are read and, without a date, returned
QueryFind(c) ==
    /\ query.pc = "scan"
    /\ scan[c].pc = "idle"
    /\ query' = IF query.minHealthCheckDate = <<>>
                   THEN [IdleQuery EXCEPT !.calls = query.calls]
                   ELSE [query EXCEPT !.pc = "lookups",
                                      !.registryEntries =
                                          getRegistryEntry(entries, query.allowedStatuses)]
    /\ UNCHANGED <<converted, consumer, rewound, now, entries, sources, ledger, mempool, net, faults, updateMutex,
                   healthMutex, scan, hc, runs, skipped>>

\* health-check.service.ts lines 311-406 for the rows of the query
QueryLookups ==
    /\ query.pc = "lookups"
    /\ LET needed == neededLookups(query.registryEntries)
       IN \E rs \in [1..Len(needed) -> UNION {net[u] : u \in DOMAIN net}] :
            /\ \A i \in 1..Len(needed) : rs[i] \in net[needed[i].url]
            /\ LET completedLookups == [i \in 1..Len(needed) |-> Lookup(needed[i], rs[i])]
               IN query' = [query EXCEPT
                    !.pc = "updateFailed",
                    !.completedLookups = completedLookups,
                    !.successful =
                        [i \in 1..Len(Reconciled(query.registryEntries)) |->
                            [id |-> Reconciled(query.registryEntries)[i].assetIdentifier,
                             status |-> ResolveStatus(Reconciled(query.registryEntries)[i],
                                                      completedLookups,
                                                      query.minHealthCheckDate[1],
                                                      RespDown)]]]
    /\ UNCHANGED <<converted, consumer, rewound, now, entries, sources, ledger, mempool, net, faults, updateMutex,
                   healthMutex, scan, hc, runs, skipped>>

\* health-check.service.ts lines 408-415 for the rows of the query
QueryUpdateFailed ==
    /\ query.pc = "updateFailed"
    /\ LET failedIds == {e.assetIdentifier : e \in Range(query.registryEntries)}
                           \ {x.id : x \in Range(query.successful)}
       IN entries' = Written(entries, UpdateFailed(entries, failedIds, now), now)
    /\ query' = IF query.successful = <<>> THEN [IdleQuery EXCEPT !.calls = query.calls]
                                           ELSE [query EXCEPT !.pc = "update"]
    /\ UNCHANGED <<converted, consumer, rewound, now, sources, ledger, mempool, net, faults, updateMutex, healthMutex,
                   scan, hc, runs, skipped>>

\* health-check.service.ts lines 418-462 for the rows of the query; after the
\* last update the query returns
QueryUpdate ==
    /\ query.pc = "update"
    /\ LET x == Head(query.successful)
       IN \E thrown \in (IF "update" \in faults THEN BOOLEAN ELSE {FALSE}) :
            entries' = IF thrown THEN entries
                       ELSE Written(entries, UpdateChecked(entries, x.id, x.status, now), now)
    /\ query' = IF Len(query.successful) = 1 THEN [IdleQuery EXCEPT !.calls = query.calls]
                                             ELSE [query EXCEPT !.successful = Tail(@)]
    /\ UNCHANGED <<converted, consumer, rewound, now, sources, ledger, mempool, net, faults, updateMutex, healthMutex,
                   scan, hc, runs, skipped>>

(***************************************************************************)
(* The diff endpoint.  Its rows are the columns of prisma.registryEntry the *)
(* query reads; ids are cuids, compared as strings, here numbers.          *)
(***************************************************************************)
MaxDiffEntries == 3
MaxLimit == 2

\* a client that has not asked yet
IdleConsumer == [statusUpdatedAfter |-> 0, cursorId |-> <<>>, limit |-> 1, received |-> {}]

\* findMany of getRegistryDiffEntries: where, orderBy statusUpdatedAt and id, take
getRegistryDiffEntries(store, statusUpdatedAfter, cursorId, limit) ==
    LET RECURSIVE Ordered(_)
        Ordered(S) ==
            IF S = {} THEN <<>>
            ELSE LET first == CHOOSE x \in S : \A y \in S :
                                  \/ x.statusUpdatedAt < y.statusUpdatedAt
                                  \/ /\ x.statusUpdatedAt = y.statusUpdatedAt
                                     /\ x.id <= y.id
                 IN <<first>> \o Ordered(S \ {first})
        found == {e \in store :
                     \/ e.statusUpdatedAt > statusUpdatedAfter
                     \/ /\ e.statusUpdatedAt = statusUpdatedAfter
                        /\ cursorId = <<>> \/ e.id >= cursorId[1]}
    IN Take(Ordered(found), limit)

\* one request of a client that pages forward: the statusUpdatedAt and the id
\* of the last item of a page are the cursor of the next request
DiffPoll ==
    /\ LET page == getRegistryDiffEntries(entries, consumer.statusUpdatedAfter,
                                          consumer.cursorId, consumer.limit)
       IN consumer' =
            IF page = <<>> THEN consumer
            ELSE [consumer EXCEPT
                     !.statusUpdatedAfter = page[Len(page)].statusUpdatedAt,
                     !.cursorId = <<page[Len(page)].id>>,
                     !.received = @ \cup {[id |-> page[i].id,
                                           statusUpdatedAt |-> page[i].statusUpdatedAt] :
                                              i \in 1..Len(page)}]
    /\ UNCHANGED <<query, converted, rewound, now, entries, sources, ledger, mempool, net, faults, updateMutex,
                   healthMutex, scan, hc, runs, skipped>>

\* an update that changes the status of a row: the trigger sets statusUpdatedAt
\* to NOW().  A row changes at most once in a unit of the clock.
DiffStatusChange ==
    /\ \E e \in entries, status \in {Online, Offline, Invalid} :
          /\ status # e.status
          /\ e.statusUpdatedAt < now
          /\ entries' = (entries \ {e}) \cup
                {set_status_updated_at("UPDATE", e, [e EXCEPT !.status = status], now)}
    /\ UNCHANGED <<query, converted, consumer, rewound, now, sources, ledger, mempool, net, faults, updateMutex,
                   healthMutex, scan, hc, runs, skipped>>

(***************************************************************************)
(* metadataStringConvert.  A string is the sequence of its characters; the *)
(* characters are two letters and two kinds of whitespace.  An input is    *)
(* undefined (or null), a string or an array of strings; the result is the *)
(* sequence of the string returned, empty for null.                        *)
(***************************************************************************)
MaxStringLen == 3
MaxFragments == 2
MaxFragmentLen == 1

Chars == {"a", "b", " ", "\t"}
IsWhitespace(ch) == ch \in {" ", "\t"}

StringsUpTo(n) == UNION {[1..k -> Chars] : k \in 0..n}

\* value.join('')
RECURSIVE join(_)
join(value) == IF value = <<>> THEN <<>> ELSE Head(value) \o join(Tail(value))

\* String.prototype.trim
RECURSIVE trim(_)
trim(result) ==
    IF result = <<>> THEN <<>>
    ELSE IF IsWhitespace(Head(result)) THEN trim(Tail(result))
    ELSE IF IsWhitespace(result[Len(result)]) THEN trim(SubSeq(result, 1, Len(result) - 1))
    ELSE result

\* the conversion without the trim
metadataStringConvertUntrimmed(value) ==
    IF value.type = "undefined" THEN <<>>
    ELSE LET result == IF value.type = "string" THEN value.value ELSE join(value.value)
         IN IF result = <<>> THEN <<>> ELSE <<result>>

metadataStringConvert(value) ==
    IF value.type = "undefined" THEN <<>>
    ELSE LET result == IF value.type = "string" THEN value.value ELSE join(value.value)
             trimmed == trim(result)
         IN IF trimmed = <<>> THEN <<>> ELSE <<trimmed>>

\* nothing converted
IdleConverted == [pc |-> "start", input |-> [type |-> "undefined", value |-> <<>>],
                  output |-> <<>>, again |-> <<>>]

\* a metadata field goes through the conversion
Convert ==
    /\ converted.pc = "start"
    /\ converted' = [converted EXCEPT !.pc = "once",
                                      !.output = metadataStringConvert(converted.input)]
    /\ UNCHANGED <<query, consumer, rewound, now, entries, sources, ledger, mempool, net, faults,
                   updateMutex, healthMutex, scan, hc, runs, skipped>>

\* the string that came out goes through the conversion once more
ConvertAgain ==
    /\ converted.pc = "once"
    /\ converted.output # <<>>
    /\ converted' = [converted EXCEPT
           !.pc = "twice",
           !.again = metadataStringConvert([type |-> "string", value |-> converted.output[1]])]
    /\ UNCHANGED <<query, consumer, rewound, now, entries, sources, ledger, mempool, net, faults,
                   updateMutex, healthMutex, scan, hc, runs, skipped>>

(***************************************************************************)
(* Specifications                                                          *)
(***************************************************************************)
\* a source at the start of its policy's ledger; rpcProviderApiKey is the key
\* of its RegistrySourceConfig, "valid" or "revoked" at the provider
Source(policyId) ==
    [policyId |-> policyId, lastTxId |-> Null, lastCheckedPage |-> 1,
     rpcProviderApiKey |-> "valid"]

\* the state after construction: one source at the start of its policy's
\* ledger, nobody running
Setup(stores, chains, nets, faultSets, scanCallers, hcCallers, scanRuns, hcRuns) ==
    /\ now = 0
    /\ entries \in stores
    /\ sources = [s \in {"s1"} |-> Source(Policy1)]
    /\ \E chain \in chains : /\ ledger = [p \in {Policy1} |-> chain.confirmed]
                             /\ mempool = [p \in {Policy1} |-> chain.pending]
    /\ net \in nets
    /\ faults \in faultSets
    /\ updateMutex = FALSE
    /\ healthMutex = FALSE
    /\ scan = [c \in scanCallers |->
                  [pc |-> "idle", deregistered |-> {},
                   task |-> [s \in {"s1"} |-> IdleTask]]]
    /\ hc = [c \in hcCallers |->
                [pc |-> "idle", onlyEntriesAfter |-> 0, deregistered |-> {},
                 task |-> [s \in {"s1"} |-> IdleHcTask]]]
    /\ runs = [scan |-> scanRuns, hc |-> hcRuns]
    /\ skipped = [scan |-> 0, hc |-> 0]
    /\ rewound = [at |-> 0, status |-> [a \in Units |-> Null]]
    /\ consumer = IdleConsumer
    /\ converted = IdleConverted
    /\ query = IdleQuery

Chain(confirmed, pending) == [confirmed |-> confirmed, pending |-> pending]

\* two assets minted by one transaction and one of them burned
MainChains ==
    {Chain(<<Row("mintA1A2", "mint"), Row("burnA2", "mint")>>, <<>>)}

MainNets == {[u \in Urls |-> IF u = SharedUrl THEN {RespDown, RespId(A1)} ELSE {RespDown}]}

Init == Setup({{}}, MainChains, MainNets, {{}, {"asset"}}, {"tick"}, {"tick"},
              MaxScanRuns, MaxHcRuns)

\* an asset minted and burned, and later on minted again under the same name
RemintChains ==
    {Chain(<<Row("mintA2", "mint"), Row("spendX", "spend"), Row("burnA2", "mint")>>,
           <<Row("remintA2", "mint")>>)}

RemintNets == {[u \in Urls |-> IF u = SharedUrl THEN {RespDown, RespAgent} ELSE {RespDown}]}

InitRemint == Setup({{}}, RemintChains, RemintNets, {{}}, {"tick"}, {"tick"},
                    MaxRemintScanRuns, MaxHcRuns)

\* the replay of a ledger: every endpoint answers the same way each time
ReplayNets ==
    {[u \in Urls |-> IF u = SharedUrl THEN {r} ELSE {RespDown}] :
        r \in {RespDown, RespAgent, RespId(A1)}}

InitReplay == Setup({{}}, MainChains \cup RemintChains, ReplayNets, {{}}, {"tick"}, {"tick"},
                    MaxReplayRuns, 0)

\* the scanner alone on ledgers whose transactions spend several UTxOs of one
\* unit, move a unit without minting it, burn a unit nobody registered and
\* mint a MIP-002 asset; fetches of a page or of a transaction's utxos may fail
LedgerChains ==
    {Chain(<<Row("mintA1x2", "mint"), Row("mintA2mergeA1", "mint"), Row("burnA1of2", "mint")>>,
           <<>>),
     Chain(<<Row("mintA1A2", "mint"), Row("moveA1", "mint"), Row("burnA2", "mint")>>, <<>>),
     Chain(<<Row("burnA1", "mint"), Row("mintA3", "mint")>>, <<>>)}

\* the shared endpoint answers in any way, or every probe times out, or every
\* endpoint answers with JSON that is neither an availability nor a card
LedgerNets ==
    {[u \in Urls |-> IF u = SharedUrl THEN {RespDown, RespAgent, RespCard} ELSE {RespDown}],
     [u \in Urls |-> {RespDown}],
     [u \in Urls |-> {RespOther}]}

InitLedger == Setup({{}}, LedgerChains, LedgerNets, {{}, {"page"}, {"utxos"}}, {"tick"}, {"tick"},
                    MaxLedgerRuns, 0)

\* two sources: the first well configured, the second well configured, with
\* a key the provider rejects, or without a policy id
SourceTables ==
    {[s \in {"s1", "s2"} |-> IF s = "s1" THEN Source(Policy1) ELSE second] :
        second \in {Source(Policy2),
                    [Source(Policy2) EXCEPT !.rpcProviderApiKey = "revoked"],
                    [Source(Policy2) EXCEPT !.policyId = Null]}}

InitSources ==
    /\ now = 0
    /\ entries = {}
    /\ sources \in SourceTables
    /\ ledger = [p \in {Policy1, Policy2} |->
                    IF p = Policy1 THEN <<Row("mintA1", "mint")>> ELSE <<Row("mintB1", "mint")>>]
    /\ mempool = [p \in {Policy1, Policy2} |-> <<>>]
    /\ net \in MainNets
    /\ faults = {}
    /\ updateMutex = FALSE
    /\ healthMutex = FALSE
    /\ scan = [c \in {"tick"} |->
                  [pc |-> "idle", deregistered |-> {},
                   task |-> [s \in {"s1", "s2"} |-> IdleTask]]]
    /\ hc = [c \in {"tick"} |->
                [pc |-> "idle", onlyEntriesAfter |-> 0, deregistered |-> {},
                 task |-> [s \in {"s1", "s2"} |-> IdleHcTask]]]
    /\ runs = [scan |-> MaxScanRuns, hc |-> 0]
    /\ skipped = [scan |-> 0, hc |-> 0]
    /\ rewound = [at |-> 0, status |-> [a \in Units |-> Null]]
    /\ consumer = IdleConsumer
    /\ converted = IdleConverted
    /\ query = IdleQuery

\* two callers of each job: the scheduler's tick and another caller
MutexChains == {Chain(<<Row("mintA1", "mint")>>, <<>>)}

MutexNets == {[u \in Urls |-> IF u = SharedUrl THEN {RespAgent} ELSE {RespDown}]}

InitMutex == Setup({{}}, MutexChains, MutexNets, {{}, {"find"}}, {"tick", "api"}, {"tick", "api"},
                   MaxMutexRuns, MaxMutexRuns)

\* stores the scanner and earlier health checks leave behind.  Times before
\* the start of the run are negative.
EntryRow(asset, status, version, api, card, checks, ups, last) ==
    [assetIdentifier |-> asset,
     registrySourceId |-> "s1",
     status |-> status,
     metadataVersion |-> version,
     apiBaseUrl |-> api,
     agentCardUrl |-> card,
     statusUpdatedAt |-> last,
     lastUptimeCheck |-> last,
     updatedAt |-> last,
     uptimeCount |-> ups,
     uptimeCheckCount |-> checks,
     A2ASkills |-> 0, A2ASupportedInterfaces |-> 0, A2ACapabilities |-> 0]

HealthRowsA1 ==
    {EntryRow(A1, Online, 1, SharedUrl, Null, 1, 1, -1),
     EntryRow(A1, Invalid, 1, SharedUrl, Null, InvalidRetryCap, 0, -300),
     EntryRow(A1, Invalid, 1, SharedUrl, Null, InvalidRetryCap + 1, 0, -300)}

HealthRowsA2 ==
    {EntryRow(A2, Online, 1, SharedUrl, Null, 1, 1, -1),
     EntryRow(A2, Offline, 1, SharedUrl, Null, 2, 1, -2),
     EntryRow(A2, Invalid, 1, LocalUrl, Null, 1, 0, -10),
     EntryRow(A2, Invalid, 1, SharedUrl, Null, InvalidRetryCap + 1, 1, -300)}

HealthRowsA3 ==
    {EntryRow(A3, Online, 2, OtherUrl, SharedUrl, 1, 1, -1),
     EntryRow(A3, Invalid, 2, OtherUrl, SharedUrl, 3, 0, -1),
     EntryRow(A3, Invalid, 2, OtherUrl, SharedUrl, 5, 1, -20)}

HealthStores ==
    {{a1, a2} \cup a3 : a1 \in HealthRowsA1, a2 \in HealthRowsA2,
                        a3 \in {{}} \cup {{r} : r \in HealthRowsA3}}

HealthNets ==
    {[u \in Urls |-> IF u = SharedUrl THEN {RespDown, RespAgent, RespId(A1), RespCard}
                                      ELSE {RespDown}]}

InitHealth == Setup(HealthStores, {Chain(<<>>, <<>>)}, HealthNets, {{}}, {"tick"}, {"tick"},
                    0, MaxHealthRuns)

\* the checkers on their inputs: one Online entry of either version on every
\* url, as api url or as card url, or a V1 and a V2 entry whose api url and
\* card url are the same text; every endpoint gives the same one response
ProbeStores ==
    {{EntryRow(A1, Online, 1, u, Null, 1, 1, -1)} : u \in Urls}
    \cup {{EntryRow(A3, Online, 2, OtherUrl, u, 1, 1, -1)} : u \in Urls}
    \cup {{EntryRow(A3, Online, 2, u, Null, 1, 1, -1)} : u \in {SharedUrl, LocalUrl}}
    \cup {{EntryRow(A1, Online, 1, SharedUrl, Null, 1, 1, -1),
           EntryRow(A3, Online, 2, OtherUrl, SharedUrl, 1, 1, -1)}}

ProbeNets ==
    {[u \in Urls |-> {r}] :
        r \in {RespDown, Resp500, RespNotJson, RespAgent, RespOther, RespEmptyId,
               RespId(A1), RespId(A2), RespCard}}

\* two sources with entries of their own; the second source may lack its
\* policy id, and an update may throw
InitPartial ==
    /\ now = 0
    /\ entries \in
          {{EntryRow(A1, st, 1, SharedUrl, Null, 2, 1, -1),
            EntryRow(A2, Offline, 1, OtherUrl, Null, 2, 1, -2),
            [EntryRow(B1, st, 1, SharedUrl, Null, 2, 1, -1) EXCEPT !.registrySourceId = "s2"]} :
              st \in {Online, Offline, Invalid}}
    /\ sources \in {[s \in {"s1", "s2"} |-> IF s = "s1" THEN Source(Policy1) ELSE second] :
                       second \in {Source(Policy2), [Source(Policy2) EXCEPT !.policyId = Null]}}
    /\ ledger = [p \in {Policy1, Policy2} |-> <<>>]
    /\ mempool = [p \in {Policy1, Policy2} |-> <<>>]
    /\ net \in {[u \in Urls |-> {r}] : r \in {RespDown, RespAgent, RespOther}}
    /\ faults \in {{}, {"update"}}
    /\ updateMutex = FALSE
    /\ healthMutex = FALSE
    /\ scan = [c \in {"tick"} |->
                  [pc |-> "idle", deregistered |-> {},
                   task |-> [s \in {"s1", "s2"} |-> IdleTask]]]
    /\ hc = [c \in {"tick"} |->
                [pc |-> "idle", onlyEntriesAfter |-> 0, deregistered |-> {},
                 task |-> [s \in {"s1", "s2"} |-> IdleHcTask]]]
    /\ runs = [scan |-> 0, hc |-> MaxHealthRuns]
    /\ skipped = [scan |-> 0, hc |-> 0]
    /\ rewound = [at |-> 0, status |-> [a \in Units |-> Null]]
    /\ consumer = IdleConsumer
    /\ converted = IdleConverted
    /\ query = IdleQuery

\* a source that holds more Online/Offline entries than one batch takes and
\* more Invalid entries that are due than one batch probes, and an old
\* Deregistered entry; every endpoint gives the same one response
FleetUnit(i) == "p1f" \o ToString(i)

InitFleet ==
    Setup({{EntryRow(FleetUnit(i), IF i % 2 = 1 THEN Online ELSE Offline,
                     1, SharedUrl, Null, 1, 1, 0 - i) : i \in 1..FleetSize}
           \cup {EntryRow(FleetUnit(FleetSize + i), Invalid,
                          1, SharedUrl, Null, 1, 0, (0 - 10) - i) : i \in 1..FleetInvalid}
           \cup {EntryRow(A1, Deregistered, 1, SharedUrl, Null, 1, 1, 0 - 100)}},
          {Chain(<<>>, <<>>)},
          {[u \in Urls |-> {r}] : r \in {RespDown, RespAgent, RespOther}},
          {{}}, {"tick"}, {"tick"}, 0, MaxFleetRuns)

\* ledgers on which one transaction has two redeemer rows: two mints, a spend
\* and a mint, and two rows that lie on two pages
RowsChains ==
    {Chain(<<Row("mintA1", "mint"), Row("mintA1", "mint")>>, <<>>),
     Chain(<<Row("mintA1", "spend"), Row("mintA1", "mint"), Row("mintA2", "mint")>>, <<>>),
     Chain(<<Row("mintA1", "mint"), Row("mintA2", "mint"), Row("mintA2", "mint"),
             Row("mintA3", "mint")>>, <<>>)}

InitRows == Setup({{}}, RowsChains, MutexNets, {{}}, {"tick"}, {"tick"}, MaxLedgerRuns, 0)

\* the query: a checked Online entry and a Deregistered entry in the store, a
\* mint the scanner has yet to read, every endpoint giving the same response
QueryStores ==
    {{EntryRow(A1, Online, 1, SharedUrl, Null, 1, 1, last),
      EntryRow(A2, Deregistered, 1, SharedUrl, Null, 2, 1, -3)} : last \in {-3, -1}}

QueryNets == {[u \in Urls |-> {r}] : r \in {RespDown, RespAgent, RespId(A1)}}

InitQuery == Setup(QueryStores, {Chain(<<Row("mintA3", "mint")>>, <<>>)}, QueryNets, {{}}, {"tick", "api"}, {"tick"}, 1, 0)

InitProbe == Setup(ProbeStores, {Chain(<<>>, <<>>)}, ProbeNets, {{}}, {"tick"}, {"tick"},
                   0, MaxHealthRuns)

ScanNext ==
    \/ \E c \in DOMAIN scan : ScanCall(c)
    \/ \E c \in DOMAIN scan : ScanLoadSources(c)
    \/ \E c \in DOMAIN scan, s \in DOMAIN sources : ScanFetchPage(c, s)
    \/ \E c \in DOMAIN scan, s \in DOMAIN sources : ScanFetchUtxos(c, s)
    \/ \E c \in DOMAIN scan, s \in DOMAIN sources : ScanAsset(c, s)
    \/ \E c \in DOMAIN scan, s \in DOMAIN sources : ScanCursor(c, s)
    \/ \E c \in DOMAIN scan : ScanRelease(c)

HcNext ==
    \/ \E c \in DOMAIN hc : HcCall(c)
    \/ \E c \in DOMAIN hc : HcLoadSources(c)
    \/ \E c \in DOMAIN hc, s \in DOMAIN sources : HcSelect(c, s)
    \/ \E c \in DOMAIN hc, s \in DOMAIN sources : HcSelectInvalid(c, s)
    \/ \E c \in DOMAIN hc, s \in DOMAIN sources : HcTouch(c, s)
    \/ \E c \in DOMAIN hc, s \in DOMAIN sources : HcLookups(c, s)
    \/ \E c \in DOMAIN hc, s \in DOMAIN sources : HcUpdateFailed(c, s)
    \/ \E c \in DOMAIN hc, s \in DOMAIN sources : HcUpdate(c, s)
    \/ \E c \in DOMAIN hc : HcRelease(c)

EnvNext == \E p \in DOMAIN mempool : Confirm(p)

RewindNext == \E s \in DOMAIN sources : Rewind(s)

Next == ScanNext \/ HcNext \/ Tick

NextOpen == Next \/ EnvNext

NextReplay == ScanNext \/ EnvNext \/ RewindNext \/ Tick

NextMutex == ScanNext \/ HcNext

NextLedger == ScanNext \/ RewindNext \/ Tick

NextHealth == HcNext \/ Tick

Spec == Init /\ [][Next]_vars

SpecRemint == InitRemint /\ [][NextOpen]_vars

SpecReplay == InitReplay /\ [][NextReplay]_vars

SpecMutex == InitMutex /\ [][NextMutex]_vars

SpecLedger == InitLedger /\ [][NextLedger]_vars

SpecSources == InitSources /\ [][NextLedger]_vars

SpecHealth == InitHealth /\ [][NextHealth]_vars

SpecProbe == InitProbe /\ [][NextHealth]_vars

SpecPartial == InitPartial /\ [][NextHealth]_vars

QueryNext ==
    \/ QueryCall("api")
    \/ QueryFind("api")
    \/ QueryLookups
    \/ QueryUpdateFailed
    \/ QueryUpdate

NextQuery == QueryNext \/ ScanNext \/ Tick

SpecQuery == InitQuery /\ [][NextQuery]_vars

NextRows == ScanNext \/ Tick

SpecRows == InitRows /\ [][NextRows]_vars

\* the runs of the health job one after the other, within one unit of the clock
SpecFleet == InitFleet /\ [][HcNext]_vars

\* the diff endpoint polled while statuses change
InitDiff ==
    /\ now = 0
    /\ entries = {[id |-> i, status |-> Online, statusUpdatedAt |-> 0] : i \in 1..MaxDiffEntries}
    /\ sources = [s \in {"s1"} |-> Source(Policy1)]
    /\ ledger = [p \in {Policy1} |-> <<>>]
    /\ mempool = [p \in {Policy1} |-> <<>>]
    /\ net \in MainNets
    /\ faults = {}
    /\ updateMutex = FALSE
    /\ healthMutex = FALSE
    /\ scan = [c \in {"tick"} |-> [pc |-> "idle", deregistered |-> {},
                                    task |-> [s \in {"s1"} |-> IdleTask]]]
    /\ hc = [c \in {"tick"} |-> IdleHc]
    /\ runs = [scan |-> 0, hc |-> 0]
    /\ skipped = [scan |-> 0, hc |-> 0]
    /\ rewound = [at |-> 0, status |-> [a \in Units |-> Null]]
    /\ consumer \in {[IdleConsumer EXCEPT !.limit = l] : l \in 1..MaxLimit}
    /\ converted = IdleConverted
    /\ query = IdleQuery

NextDiff == DiffPoll \/ DiffStatusChange \/ Tick

SpecDiff == InitDiff /\ [][NextDiff]_vars /\ WF_vars(DiffPoll)

\* the conversion on its inputs: undefined, every string of up to MaxStringLen
\* characters, every array of up to MaxFragments strings of up to
\* MaxFragmentLen characters
InitConvert ==
    /\ now = 0
    /\ entries = {}
    /\ sources = [s \in {"s1"} |-> Source(Policy1)]
    /\ ledger = [p \in {Policy1} |-> <<>>]
    /\ mempool = [p \in {Policy1} |-> <<>>]
    /\ net \in MainNets
    /\ faults = {}
    /\ updateMutex = FALSE
    /\ healthMutex = FALSE
    /\ scan = [c \in {"tick"} |-> [pc |-> "idle", deregistered |-> {},
                                    task |-> [s \in {"s1"} |-> IdleTask]]]
    /\ hc = [c \in {"tick"} |-> IdleHc]
    /\ runs = [scan |-> 0, hc |-> 0]
    /\ skipped = [scan |-> 0, hc |-> 0]
    /\ rewound = [at |-> 0, status |-> [a \in Units |-> Null]]
    /\ consumer = IdleConsumer
    /\ \E value \in {[type |-> "undefined", value |-> <<>>]}
                    \cup {[type |-> "string", value |-> v] : v \in StringsUpTo(MaxStringLen)}
                    \cup {[type |-> "array", value |-> v] :
                            v \in UNION {[1..k -> StringsUpTo(MaxFragmentLen)] :
                                            k \in 0..MaxFragments}} :
          converted = [IdleConverted EXCEPT !.input = value]
    /\ query = IdleQuery

NextConvert == Convert \/ ConvertAgain

SpecConvert == InitConvert /\ [][NextConvert]_vars

(***************************************************************************)
(* What the ledger says, for the properties: the true net quantity of a    *)
(* unit in a transaction, and the position of a source's cursor.           *)
(***************************************************************************)
RECURSIVE SumOf(_, _)
SumOf(amounts, unit) ==
    IF amounts = <<>> THEN 0
    ELSE (IF Head(amounts).unit = unit THEN Head(amounts).quantity ELSE 0)
         + SumOf(Tail(amounts), unit)

TrueNet(hash, unit) == SumOf(txsUtxos(hash).outputs, unit) - SumOf(txsUtxos(hash).inputs, unit)

\* the rows of the source's policy up to the last row of the cursor transaction
CursorIndex(s) ==
    LET rows == ledger[sources[s].policyId]
    IN IF \E i \in 1..Len(rows) : rows[i].tx_hash = sources[s].lastTxId
          THEN CHOOSE i \in 1..Len(rows) :
                 /\ rows[i].tx_hash = sources[s].lastTxId
                 /\ \A j \in (i + 1)..Len(rows) : rows[j].tx_hash # sources[s].lastTxId
          ELSE 0

\* the mint-purpose rows at or before the cursor that mint or burn the unit
EventsBeforeCursor(s, unit) ==
    {i \in 1..CursorIndex(s) :
        /\ ledger[sources[s].policyId][i].purpose = "mint"
        /\ TrueNet(ledger[sources[s].policyId][i].tx_hash, unit) # 0}

LastEventIsBurn(s, unit) ==
    /\ EventsBeforeCursor(s, unit) # {}
    /\ LET last == CHOOSE i \in EventsBeforeCursor(s, unit) :
                       \A j \in EventsBeforeCursor(s, unit) : j <= i
       IN TrueNet(ledger[sources[s].policyId][last].tx_hash, unit) < 0

AllIdle == /\ \A c \in DOMAIN scan : scan[c].pc = "idle"
           /\ \A c \in DOMAIN hc : hc[c].pc = "idle"

(***************************************************************************)
(* Properties                                                              *)
(***************************************************************************)

\* C1: once an entry is Deregistered, no step of a ledger-scan run or of a
\* health-check run that began afterwards changes its status.
C1_DeregisteredIsTerminal ==
    [][\A a \in Units :
         /\ \A c \in DOMAIN scan :
              (/\ a \in scan[c].deregistered
               /\ scan'[c] # scan[c]
               /\ StatusOf(entries, a) = Deregistered)
              => StatusOf(entries', a) = Deregistered
         /\ \A c \in DOMAIN hc :
              (/\ a \in hc[c].deregistered
               /\ hc'[c] # hc[c]
               /\ StatusOf(entries, a) = Deregistered)
              => StatusOf(entries', a) = Deregistered]_vars

\* C2: when the scanner has processed the burn of an asset and every run has
\* ended, the entry of the asset is Deregistered, also when a health-check
\* run that had selected the entry was in flight during the burn.
C2_BurnSurvivesProbe ==
    \A s \in DOMAIN sources : \A a \in Units :
        (AllIdle /\ LastEventIsBurn(s, a) /\ HasEntry(a))
        => StatusOf(entries, a) = Deregistered

\* C3: every entry has uptimeCheckCount >= uptimeCount.
C3_CheckCountAtLeastUptime ==
    \A e \in entries : e.uptimeCheckCount >= e.uptimeCount

\* C3 witness: an entry that was minted, minted again and checked, and was
\* Online some but not all of the times
C3_Witness ==
    \E e \in entries : /\ e.uptimeCheckCount >= 3
                       /\ e.uptimeCount >= 1
                       /\ e.uptimeCount < e.uptimeCheckCount

\* C4: every mint of valid metadata at or before a source's cursor has its
\* entry in the store.
C4_CursorImpliesMaterialized ==
    \A s \in DOMAIN sources : \A a \in Units :
        (\E i \in 1..CursorIndex(s) :
            /\ ledger[sources[s].policyId][i].purpose = "mint"
            /\ TrueNet(ledger[sources[s].policyId][i].tx_hash, a) > 0
            /\ onchain_metadata(a).schema # "none")
        => HasEntry(a)

\* what holds of the store once a replay is through: one entry per asset
\* identifier, every entry with the status it had before the rewind, every
\* asset whose last event is a burn Deregistered
Converged(s) ==
    /\ \A e1, e2 \in entries :
          e1.assetIdentifier = e2.assetIdentifier => e1 = e2
    /\ \A a \in Units : StatusOf(entries, a) = rewound.status[a]
    /\ \A a \in Units :
          (LastEventIsBurn(s, a) /\ HasEntry(a))
          => StatusOf(entries, a) = Deregistered

\* C5: after a cursor was rewound, the step of the scanner that brings the
\* cursor back to the position it had before the rewind leaves one entry per
\* asset identifier, every entry with the status it had before the rewind,
\* and every asset whose last event is a burn Deregistered.
C5_ReplayConverges ==
    [][\A s \in DOMAIN sources :
         (/\ rewound.at > 0
          /\ sources'[s] # sources[s]
          /\ CursorIndex(s)' = rewound.at)
         => Converged(s)']_vars

\* C5 witness: a replay from the start has reached the old cursor again; it
\* went through the mint of an asset that was Deregistered, and its burn
C5_Witness ==
    \E s \in DOMAIN sources :
        /\ rewound.at > 1
        /\ CursorIndex(s) = rewound.at
        /\ rewound.status[A2] = Deregistered
        /\ \E e \in entries : /\ e.assetIdentifier = A2
                               /\ e.uptimeCheckCount >= 2
                               /\ e.status = Deregistered

\* C6: at most one invocation of each job is between the acquisition of the
\* job's mutex and its release.
C6_SingleFlight ==
    /\ Cardinality({c \in DOMAIN scan : scan[c].pc \in {"locked", "run"}}) <= 1
    /\ Cardinality({c \in DOMAIN hc : hc[c].pc \in {"locked", "run"}}) <= 1

\* C6 witness: a run of each job is under way, and a second caller of each job
\* has called meanwhile
C6_Witness ==
    /\ \E c \in DOMAIN scan : scan[c].pc = "run"
    /\ \E c \in DOMAIN hc : hc[c].pc = "run"
    /\ skipped.scan > 0
    /\ skipped.hc > 0

\* C7: a call that finds the mutex of its job held ends in the same step,
\* writes no entry and no cursor and leaves every invocation as it was; an
\* invocation starts only in the step of its own call, with the mutex free:
\* none waits, and none starts at a release.
C7_HeldMutexSkipsCall ==
    [][/\ (updateMutex /\ runs'.scan # runs.scan)
            => (entries' = entries /\ sources' = sources /\ scan' = scan
                /\ updateMutex' = updateMutex)
       /\ (healthMutex /\ runs'.hc # runs.hc)
            => (entries' = entries /\ sources' = sources /\ hc' = hc
                /\ healthMutex' = healthMutex)
       /\ \A c \in DOMAIN scan :
            (scan[c].pc = "idle" /\ scan'[c].pc # "idle")
            => (~updateMutex /\ runs'.scan # runs.scan /\ scan'[c].pc = "locked")
       /\ \A c \in DOMAIN hc :
            (hc[c].pc = "idle" /\ hc'[c].pc # "idle")
            => (~healthMutex /\ runs'.hc # runs.hc /\ hc'[c].pc = "locked")]_vars

\* C7 witness: calls of both jobs were turned away, the runs that held the
\* mutexes have released them, and nothing runs
C7_Witness ==
    /\ skipped.scan > 0
    /\ skipped.hc > 0
    /\ ~updateMutex
    /\ ~healthMutex
    /\ AllIdle
    /\ entries # {}

(***************************************************************************)
(* The batch of one call of checkVerifyAndUpdateRegistryEntries            *)
(***************************************************************************)
HcTasks == {hc[c].task[s] : c \in DOMAIN hc, s \in DOMAIN sources}

\* the tasks whose lookups have come back
Probed == {t \in HcTasks : t.pc \in {"updateFailed", "update", "done"}}

BatchKeys(t) == {LookupKey(e) : e \in Range(t.registryEntries)}

\* the lookups of a key, and those of them that sent a request
LookupsOf(t, key) == {i \in 1..Len(t.completedLookups) : t.completedLookups[i].key = key}
RequestsOf(t, key) == {i \in LookupsOf(t, key) : t.completedLookups[i].sent}

\* what the verifier turns down before any request
StaticallyRejected(key) ==
    \/ UrlIsLoopback(key.url)
    \/ ~UrlIsHttp(key.url)
    \/ (~key.isA2A /\ UrlHasSearch(key.url))

Resolved == {t \in HcTasks : t.pc = "updateFailed"}

SharedKey(t) ==
    {p \in (1..Len(t.registryEntries)) \X (1..Len(t.registryEntries)) :
        /\ p[1] # p[2]
        /\ LookupKey(t.registryEntries[p[1]]) = LookupKey(t.registryEntries[p[2]])}

\* C9 as stated: the entries of a batch that share a probe target get the
\* same status.
C9_SharedTargetSameStatus ==
    \A t \in Resolved : \A p \in SharedKey(t) :
        t.successful[p[1]].status = t.successful[p[2]].status

\* C9: the entries of a batch that share a probe target get the same status
\* when the response carries no agent identifier; when it carries one, the
\* entry whose asset identifier it is gets the status of the probe and every
\* other entry gets Invalid.
C9_SharedTargetStatusRule ==
    \A t \in Resolved : \A p \in SharedKey(t) :
        LET lookup == GetLookup(t.completedLookups, LookupKey(t.registryEntries[p[1]]))
            StatusFor(i) ==
                IF t.registryEntries[i].assetIdentifier = lookup.agentIdentifier
                   THEN lookup.status ELSE Invalid
        IN IF lookup.agentIdentifier = Null
              THEN /\ t.successful[p[1]].status = lookup.status
                   /\ t.successful[p[2]].status = lookup.status
              ELSE /\ t.successful[p[1]].status = StatusFor(p[1])
                   /\ t.successful[p[2]].status = StatusFor(p[2])

\* C9 witness: two Online entries share a target, the response names one of
\* them, and the other one becomes Invalid
C9_Witness ==
    \E t \in Resolved : \E p \in SharedKey(t) :
        /\ t.registryEntries[p[1]].status = Online
        /\ t.registryEntries[p[2]].status = Online
        /\ t.successful[p[1]].status = Online
        /\ t.successful[p[2]].status = Invalid

\* C10: no run selects an Invalid entry whose uptimeCheckCount is above the
\* cap, and no step of the batcher changes such an entry.
C10_CappedInvalidNeverSelected ==
    [][/\ \A c \in DOMAIN hc : \A s \in DOMAIN sources :
            \A x \in Range(hc'[c].task[s].invalidEntries)
                      \cup Range(hc'[c].task[s].registryEntries) :
                ~(x.status = Invalid /\ x.uptimeCheckCount > InvalidRetryCap)
       /\ \A e \in entries :
            (e.status = Invalid /\ e.uptimeCheckCount > InvalidRetryCap)
            => e \in entries']_vars

\* C10 witness: a run has made its selection of Invalid entries and writes
\* its results while the store holds an Invalid entry above the cap whose
\* waiting time is over
C10_Witness ==
    \E c \in DOMAIN hc : \E s \in DOMAIN sources :
        /\ hc[c].task[s].pc = "update"
        /\ hc[c].task[s].invalidEntries # <<>>
        /\ \E e \in entries :
              /\ e.status = Invalid
              /\ e.uptimeCheckCount > InvalidRetryCap
              /\ e.lastUptimeCheck + staggeredWaitTime(e) < hc[c].onlyEntriesAfter

(***************************************************************************)
(* The backoff of the Invalid candidates                                   *)
(***************************************************************************)
\* min(10 minutes * max(0.2, checks - ups), 48 hours), in units of two minutes
WaitOf(x) ==
    IF x.uptimeCheckCount - x.uptimeCount <= 0
       THEN 1
       ELSE Min(TenMinutes * (x.uptimeCheckCount - x.uptimeCount), FortyEightHours)

\* the candidates of the runs under way, each with the cutoff of its run
Candidates ==
    UNION {{[row |-> x, cutoff |-> hc[c].onlyEntriesAfter,
             eligible |-> x \in Range(hc[c].task[s].filtered)] :
               x \in Range(hc[c].task[s].invalidEntries)} :
           c \in DOMAIN hc, s \in DOMAIN sources}

\* C11 as stated: an Invalid candidate is eligible exactly when
\* lastUptimeCheck + wait <= cutoff, the boundary included.
C11_EligibleAtOrBeforeCutoff ==
    \A k \in Candidates :
        k.eligible <=> (k.row.lastUptimeCheck + WaitOf(k.row) <= k.cutoff)

\* C11: an Invalid candidate is eligible exactly when
\* lastUptimeCheck + wait < cutoff; at lastUptimeCheck + wait = cutoff it is
\* not.
C11_EligibleBeforeCutoff ==
    \A k \in Candidates :
        k.eligible <=> (k.row.lastUptimeCheck + WaitOf(k.row) < k.cutoff)

\* C11 witness: a candidate with 5 checks, 1 of them Online, waits 40 minutes;
\* it sits on the boundary and is not eligible, while another candidate is
C11_Witness ==
    /\ \E k \in Candidates :
          /\ k.row.uptimeCheckCount = 5
          /\ k.row.uptimeCount = 1
          /\ WaitOf(k.row) = 4 * TenMinutes
          /\ k.row.lastUptimeCheck + WaitOf(k.row) = k.cutoff
          /\ ~k.eligible
    /\ \E k \in Candidates : k.eligible

\* the candidates of a task that the backoff holds back in its run
HeldBack(c, s) ==
    {x \in Range(hc[c].task[s].invalidEntries) :
        x.lastUptimeCheck + WaitOf(x) >= hc[c].onlyEntriesAfter}

\* the rows of `store` whose updatedAt differs in `after`
Bumped(store, after) ==
    {e.assetIdentifier : e \in {x \in store :
        \E y \in after : /\ y.assetIdentifier = x.assetIdentifier
                         /\ y.updatedAt # x.updatedAt}}

\* C12: the step of a run that bumps updatedAt without a probe bumps it for
\* exactly the candidates that the backoff holds back.
C12_TouchesTheHeldBack ==
    [][\A c \in DOMAIN hc : \A s \in DOMAIN sources :
         (hc[c].task[s].pc = "touch" /\ hc'[c].task[s].pc = "lookups")
         => Bumped(entries, entries') = {x.assetIdentifier : x \in HeldBack(c, s)}]_vars

\* C13: a candidate that the backoff holds back in a run is not in the batch
\* of the run, and no step of the run changes its status, its uptimeCount,
\* its uptimeCheckCount or its lastUptimeCheck.
C13_HeldBackUnchanged ==
    [][\A c \in DOMAIN hc : \A s \in DOMAIN sources : \A x \in HeldBack(c, s) :
         /\ \A y \in Range(hc[c].task[s].registryEntries) :
               y.assetIdentifier # x.assetIdentifier
         /\ \A e \in entries :
               e.assetIdentifier = x.assetIdentifier
               => \E f \in entries' :
                     /\ f.assetIdentifier = e.assetIdentifier
                     /\ f.status = e.status
                     /\ f.uptimeCount = e.uptimeCount
                     /\ f.uptimeCheckCount = e.uptimeCheckCount
                     /\ f.lastUptimeCheck = e.lastUptimeCheck]_vars

\* C13 witness: a run has written the result of a probe while a candidate of
\* it was held back
C13_Witness ==
    \E c \in DOMAIN hc : \E s \in DOMAIN sources :
        /\ hc[c].task[s].pc = "done"
        /\ hc[c].task[s].completedLookups # <<>>
        /\ HeldBack(c, s) # {}
        /\ \E e \in entries : e.lastUptimeCheck = now /\ e.uptimeCheckCount > 1

(***************************************************************************)
(* The scanner's net quantities                                            *)
(***************************************************************************)
\* the transaction a task is handling
CurrentTx(t) == t.txs[t.i].tx_hash

\* C14: the quantity the scanner nets for a unit of a transaction is the sum of
\* the unit's output quantities minus the sum of its input quantities
C14_NetIsOutputsMinusInputs ==
    \A c \in DOMAIN scan, s \in DOMAIN sources :
        LET t == scan[c].task[s]
        IN (scan[c].pc = "run" /\ t.pc \in {"asset", "cursor"}) =>
              \A n \in 1..Len(t.nets) :
                  t.nets[n].quantity = TrueNet(CurrentTx(t), t.nets[n].unit)

BurnStep(c, s) ==
    /\ scan[c].pc = "run"
    /\ scan[c].task[s].pc = "asset"
    /\ Head(scan[c].task[s].map).quantity < 0
    /\ scan'[c].task[s] # scan[c].task[s]

\* C16 as claimed: a burn of an asset without entry, or of an entry that is
\* Deregistered already, leaves the entry store as it is (handling a burn twice
\* gives the store that handling it once gives)
C16_BurnIsIdempotent ==
    [][\A c \in DOMAIN scan, s \in DOMAIN sources :
          BurnStep(c, s) =>
             LET asset == Head(scan[c].task[s].map).unit
             IN StatusOf(entries, asset) \in {Null, Deregistered} => entries' = entries]_vars

\* C16: a burn creates no entry; an entry of the asset is Deregistered after
\* it; a burn of an asset without entry changes nothing, and a burn of an
\* entry that is Deregistered already changes nothing but the row's updatedAt
C16_BurnIsIdempotentButForUpdatedAt ==
    [][\A c \in DOMAIN scan, s \in DOMAIN sources :
          BurnStep(c, s) =>
             LET asset == Head(scan[c].task[s].map).unit
                 Blind(store) == {[e EXCEPT !.updatedAt = 0] : e \in store}
             IN /\ {e.assetIdentifier : e \in entries'} = {e.assetIdentifier : e \in entries}
                /\ StatusOf(entries', asset) \in {Null, Deregistered}
                /\ StatusOf(entries, asset) = Null => entries' = entries
                /\ StatusOf(entries, asset) = Deregistered => Blind(entries') = Blind(entries)]_vars

\* the burn of A2 handled a second time, later than the mint, after the cursor
\* was set back behind it
C16_Witness ==
    /\ rewound.at > 0
    /\ runs.scan = 0
    /\ \A c \in DOMAIN scan : scan[c].pc = "idle"
    /\ rewound.status[A2] = Deregistered
    /\ sources["s1"].lastTxId = "burnA2"
    /\ \E e \in entries : /\ e.assetIdentifier = A2
                           /\ e.status = Deregistered
                           /\ e.uptimeCheckCount = 1
                           /\ e.updatedAt = now
                           /\ e.updatedAt > e.lastUptimeCheck

(***************************************************************************)
(* The mint branch                                                         *)
(***************************************************************************)
\* the statuses the initial probe of an asset's endpoint can give
InitialProbeOutcomes(asset) ==
    LET meta == onchain_metadata(asset)
    IN IF meta.schema = "mip001"
          THEN {Mip001Status(checkAndVerifyEndpoint(meta.api_url, r), asset) :
                    r \in net[meta.api_url]}
          ELSE {fetchAndValidateAgentCard(meta.agent_card_url, r).status :
                    r \in net[meta.agent_card_url]}

\* C17: the step that creates the entry of an asset creates exactly one row
\* and touches no other; the row's status is an outcome of the initial probe
\* (Offline when the probe times out) and never Deregistered, its
\* uptimeCheckCount is 1 and its uptimeCount is 1 if Online and 0 otherwise
C17_FirstMintCreatesProbedEntry ==
    [][\A a \in Units :
          (StatusOf(entries, a) = Null /\ StatusOf(entries', a) # Null) =>
              \E e \in entries' :
                  /\ e.assetIdentifier = a
                  /\ entries' = entries \cup {e}
                  /\ e.status \in InitialProbeOutcomes(a)
                  /\ e.status \in {Online, Offline, Invalid}
                  /\ net[onchain_metadata(a).api_url] = {RespDown}
                        /\ onchain_metadata(a).schema = "mip001" => e.status = Offline
                  /\ e.uptimeCheckCount = 1
                  /\ e.uptimeCount = (IF e.status = Online THEN 1 ELSE 0)
                  /\ e.lastUptimeCheck = now]_vars

\* the probe of a V1 asset timed out at its mint: created Offline, 0 of 1
C17_Witness ==
    /\ net[SharedUrl] = {RespDown}
    /\ \E e \in entries : /\ e.assetIdentifier = A1
                           /\ e.metadataVersion = 1
                           /\ e.status = Offline
                           /\ e.uptimeCount = 0
                           /\ e.uptimeCheckCount = 1

\* the step of a task that handles a positive quantity of a MIP-002 asset
Mip002Step(c, s) ==
    /\ scan[c].pc = "run"
    /\ scan[c].task[s].pc = "asset"
    /\ Head(scan[c].task[s].map).quantity > 0
    /\ onchain_metadata(Head(scan[c].task[s].map).unit).schema = "mip002"
    /\ scan'[c].task[s] # scan[c].task[s]

\* C18: a V2 mint whose fetched card fails the schema validation has an entry
\* afterwards, the entry is Invalid, and a newly created entry that is not
\* Online has no skill, supported-interface or capability sub-record
C18_InvalidCardCreatesBareEntry ==
    [][\A c \in DOMAIN scan, s \in DOMAIN sources :
          Mip002Step(c, s) =>
             LET asset == Head(scan[c].task[s].map).unit
                 url == onchain_metadata(asset).agent_card_url
             IN \E e \in entries' :
                   /\ e.assetIdentifier = asset
                   /\ e.metadataVersion = 2
                   /\ (\A r \in net[url] : r.ok /\ r.json /\ ~r.card) => e.status = Invalid
                   /\ (StatusOf(entries, asset) = Null /\ e.status # Online) =>
                         /\ e.A2ASkills = 0
                         /\ e.A2ASupportedInterfaces = 0
                         /\ e.A2ACapabilities = 0]_vars

\* the card of A3 failed the validation at the mint: A3 is there and Invalid
C18_Witness ==
    /\ net[SharedUrl] = {RespOther}
    /\ \E e \in entries : /\ e.assetIdentifier = A3
                           /\ e.metadataVersion = 2
                           /\ e.status = Invalid
                           /\ e.uptimeCheckCount = 1
                           /\ e.A2ASkills = 0

(***************************************************************************)
(* Failing fetches                                                         *)
(***************************************************************************)
\* the first mint-purpose row of the source's policy after the persisted cursor
FirstAfterCursor(s) ==
    LET rows == ledger[sources[s].policyId]
        after == {i \in (CursorIndex(s) + 1)..Len(rows) : rows[i].purpose = "mint"}
    IN IF after = {} THEN Null
       ELSE rows[CHOOSE i \in after : \A j \in after : i <= j].tx_hash

\* C19: a failing fetch of a page or of a transaction's utxos ends the source's
\* task for the run without a write to the cursor or to an entry; a task that
\* has ended stays so until the run ends; a run starts each task at the
\* persisted cursor; and, the cursor never set back by hand, the transaction a
\* task works on is the first one after the persisted cursor, so that the
\* cursor stays before a failing transaction and the next run begins with it
C19_FetchFailureKeepsCursor ==
    /\ [](rewound.at = 0 =>
            \A c \in DOMAIN scan, s \in DOMAIN sources :
                (scan[c].pc = "run" /\ scan[c].task[s].pc \in {"utxos", "asset", "cursor"}) =>
                    CurrentTx(scan[c].task[s]) = FirstAfterCursor(s))
    /\ [][\A c \in DOMAIN scan, s \in DOMAIN sources :
             LET t == scan[c].task[s]
             IN /\ (/\ scan[c].pc = "run"
                     /\ t.pc \in {"page", "utxos"}
                     /\ scan'[c].task[s].pc = "done"
                     /\ scan'[c].task[s].page = t.page) =>
                        (sources' = sources /\ entries' = entries)
                /\ (scan[c].pc = "run" /\ t.pc = "done") =>
                        (scan'[c].task[s] = t \/ scan'[c].pc = "idle")
                /\ (scan[c].pc = "locked" /\ scan'[c].pc = "run") =>
                        /\ scan'[c].task[s].cursorTxHash = sources[s].lastTxId
                        /\ scan'[c].task[s].page = sources[s].lastCheckedPage]_vars

\* the fetch of the first transaction's utxos failed in the first run: nothing
\* was written, and the second run is about to fetch the same utxos
C19_Witness ==
    /\ faults = {"utxos"}
    /\ runs.scan = MaxLedgerRuns - 2
    /\ rewound.at = 0
    /\ sources["s1"].lastTxId = Null
    /\ entries = {}
    /\ \E c \in DOMAIN scan : /\ scan[c].pc = "run"
                               /\ scan[c].task["s1"].pc = "utxos"
                               /\ CurrentTx(scan[c].task["s1"]) = "mintA1A2"

C21_ShortPageEndsScan ==
    [][\A c \in DOMAIN scan, s \in DOMAIN sources :
          LET t == scan[c].task[s]
          IN (scan[c].pc = "run" /\ t.pc = "page" /\ scan'[c].task[s] # t) =>
                t.transactionsOnPage \in {0, PageSize}]_vars

\* C21: a task's page loop ends, no fetch having failed, exactly with the
\* fetch of a page that holds no row: after a page that holds rows, however
\* few, the next page is fetched
C21_EmptyPageEndsScan ==
    [][\A c \in DOMAIN scan, s \in DOMAIN sources :
          LET t == scan[c].task[s]
              u == scan'[c].task[s]
          IN (scan[c].pc = "run" /\ scan'[c].pc = "run" /\ u # t /\ u.page # t.page) =>
                /\ u.pc = "done" <=> (t.pc = "page" /\ u.transactionsOnPage = 0)
                /\ t.pc = "page" =>
                      u.transactionsOnPage = Len(getScriptsRedeemers(sources[s].policyId, t.page))]_vars

\* a ledger whose last page is shorter than the page size, scanned to the end:
\* the page after the short one was fetched too
C21_Witness ==
    \E c \in DOMAIN scan :
        LET t == scan[c].task["s1"]
            rows == Len(ledger[sources["s1"].policyId])
        IN /\ scan[c].pc = "run"
           /\ faults = {}
           /\ rows % PageSize # 0
           /\ t.pc = "done"
           /\ t.transactionsOnPage = 0
           /\ t.page = (rows \div PageSize) + 3

\* C22: the utxos are fetched, entries are written and the cursor is written
\* for rows of purpose 'mint' only, and the persisted cursor is null or the
\* hash of a mint-purpose row of the source's policy
C22_OnlyMintRowsAreHandled ==
    /\ [](\A c \in DOMAIN scan, s \in DOMAIN sources :
            /\ (scan[c].pc = "run" /\ scan[c].task[s].pc \in {"utxos", "asset", "cursor"}) =>
                  scan[c].task[s].txs[scan[c].task[s].i].purpose = "mint"
            /\ sources[s].lastTxId # Null =>
                  \E i \in 1..Len(ledger[sources[s].policyId]) :
                      /\ ledger[sources[s].policyId][i].tx_hash = sources[s].lastTxId
                      /\ ledger[sources[s].policyId][i].purpose = "mint")
    /\ [][\A c \in DOMAIN scan, s \in DOMAIN sources :
             LET t == scan[c].task[s]
             IN (scan[c].pc = "run" /\ scan'[c].task[s] # t) =>
                   /\ entries' # entries => t.pc = "asset"
                   /\ sources' # sources =>
                         /\ t.pc = "cursor"
                         /\ sources'[s].lastTxId = CurrentTx(t)]_vars

\* a spend row lay between two mint rows and the scanner has passed it: the
\* cursor is on the row after it
C22_Witness ==
    /\ \E i \in 1..Len(ledger[Policy1]) :
          /\ ledger[Policy1][i].purpose = "spend"
          /\ i < CursorIndex("s1")
    /\ sources["s1"].lastTxId = "burnA2"
    /\ StatusOf(entries, A2) = Deregistered

(***************************************************************************)
(* The identity rule of MIP-001                                            *)
(***************************************************************************)
\* C23: for every V1 entry and every response its endpoint may give, a
\* response that carries an identifier other than the entry's asset identifier
\* gives Invalid at the mint, in the batch and in the individual check; and a
\* V1 entry is Online only if its endpoint has a 2xx response that carries the
\* entry's own identifier or none
C23_ForeignIdentifierIsInvalid ==
    \A e \in entries :
        ~getHealthCheckKey(e).isA2A =>
            /\ \A r \in net[e.apiBaseUrl] :
                  LET result == checkAndVerifyEndpoint(e.apiBaseUrl, r)
                  IN (result.returnedAgentIdentifier \notin {Null, e.assetIdentifier}) =>
                        /\ Mip001Status(result, e.assetIdentifier) = Invalid
                        /\ ResolveStatus(e, <<Lookup(LookupKey(e), r)>>,
                                         e.lastUptimeCheck, r) = Invalid
                        /\ checkAndVerifyRegistryEntry(e, <<e.lastUptimeCheck>>, r).status = Invalid
            /\ e.status = Online =>
                  \E r \in net[e.apiBaseUrl] :
                      /\ r.ok
                      /\ r.agentIdentifier \in {Null, "", e.assetIdentifier}

\* two V1 entries on one endpoint that names A1: A1 Online, and A2, Offline at
\* its mint, made Invalid by the batch
C23_Witness ==
    /\ \E e \in entries : /\ e.assetIdentifier = A1
                           /\ e.status = Online
                           /\ e.uptimeCheckCount = 2
    /\ \E e \in entries : /\ e.assetIdentifier = A2
                           /\ e.apiBaseUrl = SharedUrl
                           /\ e.status = Invalid
                           /\ e.uptimeCheckCount = 2

(***************************************************************************)
(* The checkers                                                            *)
(***************************************************************************)
\* C24: a lookup of either checker for a url whose host is localhost or
\* 127.0.0.1, or whose scheme is neither http nor https, comes back Invalid
\* and has sent no request
C24_StaticRejectionSendsNothing ==
    \A t \in Probed :
        \A i \in 1..Len(t.completedLookups) :
            (UrlIsLoopback(t.completedLookups[i].key.url)
                \/ ~UrlIsHttp(t.completedLookups[i].key.url)) =>
                /\ t.completedLookups[i].status = Invalid
                /\ ~t.completedLookups[i].sent

\* the card checker was handed a card url on 127.0.0.1 where a valid card is
\* served
C24_Witness ==
    /\ net[LoopbackIpUrl] = {RespCard}
    /\ \E t \in Probed :
          \E i \in 1..Len(t.completedLookups) :
              /\ t.completedLookups[i].key = [url |-> LoopbackIpUrl, isA2A |-> TRUE]
              /\ t.completedLookups[i].status = Invalid

\* C25: a lookup comes back Online exactly when the response is 2xx and its
\* body validates, Offline exactly when the fetch fails or the response is not
\* 2xx, and Invalid exactly when the url is rejected before the fetch or the
\* response is 2xx and its body does not validate
C25_OutcomeOfAProbe ==
    \A t \in Probed :
        \A i \in 1..Len(t.completedLookups) :
            LET lookup == t.completedLookups[i]
                r == CHOOSE x \in net[lookup.key.url] : TRUE
                answered == r.kind = "http" /\ r.ok
                validates == /\ r.json
                             /\ IF lookup.key.isA2A
                                   THEN r.card
                                   ELSE r.agentIdentifier \notin {Null, ""}
                                            \/ r.type = "masumi-agent"
            IN /\ lookup.status \in {Online, Offline, Invalid}
               /\ lookup.status = Online <=>
                     (~StaticallyRejected(lookup.key) /\ answered /\ validates)
               /\ lookup.status = Offline <=>
                     (~StaticallyRejected(lookup.key) /\ ~answered)
               /\ lookup.status = Invalid <=>
                     (StaticallyRejected(lookup.key) \/ (answered /\ ~validates))

\* C26: the status resolved for an entry of a batch is the result of the
\* checker of the entry's own kind on the entry's own url: the agent-card
\* checker on agentCardUrl for a version-2 entry with a card url, the
\* availability checker on apiBaseUrl (with the identity rule) for every other
\* entry, also where both urls of two entries are the same text
C26_CheckerOfOwnKind ==
    \A t \in Probed :
        \A i \in 1..Len(t.successful) :
            LET e == CHOOSE x \in Range(t.registryEntries) :
                         x.assetIdentifier = t.successful[i].id
                isA2A == e.metadataVersion = 2 /\ e.agentCardUrl # Null
                url == IF isA2A THEN e.agentCardUrl ELSE e.apiBaseUrl
                r == CHOOSE x \in net[url] : TRUE
                card == checkA2AAgentCard(e.agentCardUrl, r)
                availability == checkAndVerifyEndpoint(e.apiBaseUrl, r)
            IN /\ \E x \in Range(t.registryEntries) : x.assetIdentifier = t.successful[i].id
               /\ t.successful[i].status =
                     IF isA2A THEN card.status
                     ELSE IF availability.returnedAgentIdentifier \notin {Null, e.assetIdentifier}
                             THEN Invalid
                             ELSE availability.status
               /\ \E j \in 1..Len(t.completedLookups) :
                     t.completedLookups[j].key = [url |-> url, isA2A |-> isA2A]

\* a batch with a version-1 entry and a version-2 entry on one url text, which
\* serves an availability body: the first is Online, the second Invalid, and
\* each kind has sent its own request
C26_Witness ==
    \E t \in Probed :
        /\ net[SharedUrl] = {RespAgent}
        /\ \E x, y \in Range(t.registryEntries) :
              /\ x.metadataVersion = 1 /\ x.apiBaseUrl = SharedUrl
              /\ y.metadataVersion = 2 /\ y.agentCardUrl = SharedUrl
              /\ \E i, j \in 1..Len(t.successful) :
                    /\ t.successful[i] = [id |-> x.assetIdentifier, status |-> Online]
                    /\ t.successful[j] = [id |-> y.assetIdentifier, status |-> Invalid]
        /\ Cardinality({k \in 1..Len(t.completedLookups) :
                          t.completedLookups[k].key.url = SharedUrl /\ t.completedLookups[k].sent}) = 2

\* C27: for every stored entry, every response its endpoint may give and every
\* minimum date, the individual check sends no request and returns the entry's
\* status when the entry's lastUptimeCheck is later than the date or the date
\* is undefined; otherwise it probes the entry: it returns the result of the
\* checker of the entry's kind and has sent a request unless the url is
\* rejected before the fetch
C27_FreshEntryIsNotProbed ==
    \A e \in entries :
        LET key == getHealthCheckKey(e)
            dates == {<<>>} \cup {<<d>> : d \in (e.lastUptimeCheck - 1)..(now + 1)}
        IN \A r \in net[key.url] : \A date \in dates :
             LET result == checkAndVerifyRegistryEntry(e, date, r)
                 probe == Lookup(key, r)
             IN IF date = <<>> \/ e.lastUptimeCheck > date[1]
                   THEN ~result.sent /\ result.status = e.status
                   ELSE /\ result.sent = ~StaticallyRejected(key)
                        /\ result.status =
                              IF probe.agentIdentifier \notin {Null, e.assetIdentifier}
                                 THEN Invalid ELSE probe.status

\* an Online entry whose endpoint is down: the check with an undefined date and
\* the check with an earlier date return Online without a request, the check
\* with the date of its last check sends a request and returns Offline
C27_Witness ==
    \E e \in entries :
        /\ e.status = Online
        /\ net[getHealthCheckKey(e).url] = {RespDown}
        /\ ~StaticallyRejected(getHealthCheckKey(e))
        /\ checkAndVerifyRegistryEntry(e, <<>>, RespDown) = CheckResult(Online, Null, FALSE)
        /\ checkAndVerifyRegistryEntry(e, <<e.lastUptimeCheck - 1>>, RespDown) = CheckResult(Online, Null, FALSE)
        /\ checkAndVerifyRegistryEntry(e, <<e.lastUptimeCheck>>, RespDown) = CheckResult(Offline, Null, TRUE)

\* C28: in every step, an entry that a running health check has reconciled
\* either keeps its status, both counters and lastUptimeCheck, or is the entry
\* the run updates in this step and gets all four at once: the reconciled
\* status, uptimeCheckCount + 1, uptimeCount + 1 exactly when the status is
\* Online, and lastUptimeCheck set to the time of the update
C28_OneUpdateWritesAllFour ==
    [][\A e \in entries :
         LET after == {x \in entries' : x.assetIdentifier = e.assetIdentifier}
             updating == {t \in HcTasks : /\ t.pc = "update"
                                          /\ Head(t.successful).id = e.assetIdentifier}
         IN (\E t \in HcTasks : \E i \in 1..Len(t.successful) :
                 t.successful[i].id = e.assetIdentifier)
            => \A x \in after :
                 \/ /\ x.status = e.status
                    /\ x.uptimeCheckCount = e.uptimeCheckCount
                    /\ x.uptimeCount = e.uptimeCount
                    /\ x.lastUptimeCheck = e.lastUptimeCheck
                 \/ \E t \in updating :
                       /\ x.status = Head(t.successful).status
                       /\ x.uptimeCheckCount = e.uptimeCheckCount + 1
                       /\ x.uptimeCount = e.uptimeCount + (IF x.status = Online THEN 1 ELSE 0)
                       /\ x.lastUptimeCheck = now]_vars

\* in the middle of a batch: the entry checked longest ago is updated to
\* Online with its check and its uptime counted, the other still waits
C28_Witness ==
    /\ \E e \in entries :
          /\ e.assetIdentifier = A2
          /\ e.status = Online
          /\ e.uptimeCheckCount = 3 /\ e.uptimeCount = 2 /\ e.lastUptimeCheck = now
    /\ \E e \in entries :
          /\ e.assetIdentifier = A1
          /\ e.uptimeCheckCount = 2 /\ e.lastUptimeCheck = -1
    /\ \E t \in HcTasks : t.pc = "update" /\ Head(t.successful).id = A1

\* the row of the store that a row of a batch was read from
StoredRow(e) == CHOOSE x \in entries : x.assetIdentifier = e.assetIdentifier

\* the batches that are through, each with its source
FinishedBatches ==
    {b \in {[source |-> s, after |-> hc[c].onlyEntriesAfter, task |-> hc[c].task[s]] :
                c \in DOMAIN hc, s \in DOMAIN sources} : b.task.pc = "done"}

\* an entry of a batch whose update went through
UpdatedFrom(e, after) ==
    LET x == StoredRow(e)
    IN /\ x.uptimeCheckCount = e.uptimeCheckCount + 1
       /\ x.uptimeCount = e.uptimeCount + (IF x.status = Online THEN 1 ELSE 0)
       /\ x.lastUptimeCheck \in after..now

C30_EveryChangeIsReceived ==
    \A i \in 1..MaxDiffEntries : \A t \in 0..MaxTime :
        (\E e \in entries : e.id = i /\ e.statusUpdatedAt = t)
            ~> (\E r \in consumer.received : r.id = i /\ r.statusUpdatedAt >= t)

\* C31: an entry's statusUpdatedAt changes exactly when an update changes its
\* status: a step that leaves the status of an entry as it was leaves its
\* statusUpdatedAt as it was, whatever else it writes, and a step that
\* changes the status sets statusUpdatedAt to the time of the step.
C31_StampedExactlyOnStatusChange ==
    [][\A e \in entries : \A n \in entries' :
         n.assetIdentifier = e.assetIdentifier
         => IF n.status # e.status
               THEN n.statusUpdatedAt = now
               ELSE n.statusUpdatedAt = e.statusUpdatedAt]_vars

\* C31 witness: an entry minted at time 0 and burned later carries the time
\* of the burn, and an entry a later health check found in the status it had
\* still carries the time of its mint
C31_Witness ==
    /\ \E e \in entries : /\ e.status = Deregistered
                           /\ e.lastUptimeCheck = 0
                           /\ e.statusUpdatedAt = 1
    /\ \E e \in entries : /\ e.uptimeCheckCount >= 2
                           /\ e.lastUptimeCheck = 1
                           /\ e.statusUpdatedAt = 0


\* C32: for each source in each health-check run, the probed batch is at most
\* 50 Online/Offline entries, those with the oldest lastUptimeCheck among the
\* source's Online/Offline entries with lastUptimeCheck <= cutoff, followed by
\* at most 10 Invalid entries that are below the retry cap and past their
\* backoff; no entry of the batch is Deregistered when it is selected.
C32_BatchOfARun ==
    [][\A c \in DOMAIN hc : \A s \in DOMAIN sources :
         LET t == hc[c].task[s]
             u == hc'[c].task[s]
             cutoff == hc[c].onlyEntriesAfter
             pool == {e \in entries : /\ e.registrySourceId = s
                                      /\ e.status \in {Online, Offline}
                                      /\ e.lastUptimeCheck <= cutoff}
             taken == {u.entries[i] : i \in 1..Len(u.entries)}
             tail == SubSeq(u.registryEntries, Len(t.entries) + 1, Len(u.registryEntries))
         IN /\ (hc[c].pc = "run" /\ t.pc = "select" /\ u.pc = "selectInvalid")
               => /\ Len(u.entries) <= 50
                  /\ Len(u.entries) = Cardinality(taken)
                  /\ taken \subseteq pool
                  /\ Cardinality(taken) < 50 => taken = pool
                  /\ \A x \in taken : \A y \in pool \ taken :
                        x.lastUptimeCheck <= y.lastUptimeCheck
                  /\ \A i \in 1..(Len(u.entries) - 1) :
                        u.entries[i].lastUptimeCheck <= u.entries[i + 1].lastUptimeCheck
            /\ (hc[c].pc = "run" /\ t.pc = "selectInvalid" /\ u.pc = "touch")
               => /\ SubSeq(u.registryEntries, 1, Len(t.entries)) = t.entries
                  /\ Len(tail) <= 10
                  /\ \A i \in 1..Len(tail) :
                        /\ tail[i] \in entries
                        /\ tail[i].registrySourceId = s
                        /\ tail[i].status = Invalid
                        /\ tail[i].uptimeCheckCount <= 20
                        /\ tail[i].lastUptimeCheck + staggeredWaitTime(tail[i]) < cutoff
                  /\ \A i \in 1..Len(u.registryEntries) :
                        StatusOf(entries, u.registryEntries[i].assetIdentifier) # Deregistered]_vars

\* C32 witness: a batch of 50 Online/Offline entries and 10 Invalid entries,
\* taken from a source that holds more of either and a Deregistered entry
C32_Witness ==
    \E c \in DOMAIN hc : \E s \in DOMAIN sources :
        /\ hc[c].pc = "run"
        /\ Len(hc[c].task[s].entries) = 50
        /\ Len(hc[c].task[s].registryEntries) = 60
        /\ Cardinality({e \in entries : e.status \in {Online, Offline}}) > 50
        /\ Len(hc[c].task[s].filtered) > 10
        /\ \E e \in entries : e.status = Deregistered /\ e.registrySourceId = s


C33_ConcatenatedTrimmedOrNull ==
    converted.pc # "start" =>
        LET value == converted.input
            text == IF value.type = "array" THEN join(value.value) ELSE value.value
            inked == {i \in 1..Len(text) : ~IsWhitespace(text[i])}
            lo == CHOOSE i \in inked : \A j \in inked : i <= j
            hi == CHOOSE i \in inked : \A j \in inked : j <= i
        IN /\ converted.output # << <<>> >>
           /\ (value.type = "undefined" \/ inked = {}) <=> converted.output = <<>>
           /\ (value.type # "undefined" /\ inked # {})
                 => converted.output = <<SubSeq(text, lo, hi)>>
           /\ converted.pc = "twice" => converted.again = converted.output

\* C33 witness: an array of two fragments whose concatenation begins with
\* whitespace went through the conversion twice, and the result has lost a
\* character
C33_Witness ==
    /\ converted.pc = "twice"
    /\ converted.input.type = "array"
    /\ Len(converted.input.value) = 2
    /\ IsWhitespace(join(converted.input.value)[1])
    /\ Len(converted.output[1]) < Len(join(converted.input.value))


\* the place in the ledger of the row a task is at, and of the last row of
\* the transaction a task took as its cursor
RowAt(t) == (t.page - 1) * PageSize + (t.transactionsOnPage - Len(t.txs)) + t.i
AtRow(t) == t.pc \in {"utxos", "asset", "cursor"}
CursorRowOf(s, t) ==
    LET rows == ledger[sources[s].policyId]
        at == {i \in 1..Len(rows) : rows[i].tx_hash = t.cursorTxHash}
    IN IF at = {} THEN 0 ELSE CHOOSE i \in at : \A j \in at : j <= i

\* C34: in every scan run, no invocation at or before the persisted lastTxId
\* is processed again, and the invocations after it are processed at most
\* once and in ascending ledger order, also when the transaction of lastTxId
\* has several rows on the page and on the pages after the first one.
C34_ResumesStrictlyAfterCursor ==
    [][\A c \in DOMAIN scan : \A s \in DOMAIN sources :
         LET t == scan[c].task[s]
             u == scan'[c].task[s]
         IN (scan[c].pc = "run" /\ scan'[c].pc = "run")
            => /\ (AtRow(u) /\ u # t) => RowAt(u) > CursorRowOf(s, u)
               /\ (AtRow(t) /\ AtRow(u)) => RowAt(u) >= RowAt(t)
               /\ (t.pc = "cursor" /\ AtRow(u) /\ u # t) => RowAt(u) > RowAt(t)]_vars


\* C35: when the mint of an already indexed V2 asset is processed again and
\* the card is not fetched or not valid, the entry keeps its skill, interface
\* and capability records and its counters go on from where they were; the
\* card data is written only when the fetch succeeds.
C35_FailedFetchKeepsCard ==
    [][\A c \in DOMAIN scan : \A s \in DOMAIN sources : \A e \in entries :
         LET t == scan[c].task[s]
             n == CHOOSE x \in entries' : x.assetIdentifier = e.assetIdentifier
         IN (/\ scan[c].pc = "run"
             /\ t.pc = "asset"
             /\ scan'[c].task[s] # t
             /\ Head(t.map).unit = e.assetIdentifier
             /\ Head(t.map).quantity > 0
             /\ onchain_metadata(e.assetIdentifier).schema = "mip002"
             /\ entries' # entries)
            => /\ n.uptimeCheckCount = e.uptimeCheckCount + 1
               /\ n.uptimeCount = e.uptimeCount + (IF n.status = Online THEN 1 ELSE 0)
               /\ IF n.status = Online
                     THEN /\ n.A2ASkills = AgentCard.skills
                          /\ n.A2ASupportedInterfaces = AgentCard.supportedInterfaces
                          /\ n.A2ACapabilities = AgentCard.capabilities
                     ELSE /\ n.A2ASkills = e.A2ASkills
                          /\ n.A2ASupportedInterfaces = e.A2ASupportedInterfaces
                          /\ n.A2ACapabilities = e.A2ACapabilities]_vars

\* C35 witness: a V2 entry that was indexed with its card and whose mint was
\* processed once more while the card could not be fetched
C35_Witness ==
    \E e \in entries : /\ e.metadataVersion = 2
                       /\ e.status \in {Offline, Invalid}
                       /\ e.uptimeCheckCount >= 2
                       /\ e.uptimeCount >= 1
                       /\ e.A2ASkills = 1
                       /\ e.A2ASupportedInterfaces = 1
                       /\ e.A2ACapabilities = 1


\* C37: every run that acquires the scan mutex or the health mutex releases
\* it on every path, also when the query of the sources issued right after
\* the acquisition fails: when no invocation of a job is under way, the
\* job's mutex is free, so that a later tick can acquire it.
C37_MutexFreeWhenNobodyRuns ==
    /\ (\A c \in DOMAIN scan : scan[c].pc = "idle") => ~updateMutex
    /\ (\A c \in DOMAIN hc : hc[c].pc = "idle") => ~healthMutex


\* the statuses a batch assigned are the statuses of the individual check, for
\* every response that gives the lookup the batch saw
BatchAgrees(registryEntries, completedLookups, successful, minHealthCheckDate) ==
    \A i \in 1..Len(successful) :
       LET entry == Reconciled(registryEntries)[i]
       IN \A r \in net[LookupKey(entry).url] :
             Lookup(LookupKey(entry), r) = GetLookup(completedLookups, LookupKey(entry))
                => successful[i].status
                      = checkAndVerifyRegistryEntry(entry, <<minHealthCheckDate>>, r).status

\* C38: whenever checkVerifyAndUpdateRegistryEntries has probed the
\* deduplicated targets of a batch, for the scheduled job or for a query, the
\* status it assigns to each entry is the status checkAndVerifyRegistryEntry
\* returns for that entry alone, the same minHealthCheckDate and the same
\* response.
C38_BatchStatusIsIndividualStatus ==
    [][/\ (query.pc = "lookups" /\ query'.pc # "lookups")
           => BatchAgrees(query.registryEntries, query'.completedLookups,
                          query'.successful, query.minHealthCheckDate[1])
       /\ \A c \in DOMAIN hc, s \in DOMAIN sources :
             (hc[c].pc = "run" /\ hc[c].task[s].pc = "lookups"
                 /\ hc'[c].task[s].pc # "lookups")
                => BatchAgrees(hc[c].task[s].registryEntries,
                               hc'[c].task[s].completedLookups,
                               hc'[c].task[s].successful, hc[c].onlyEntriesAfter)]_vars

\* C39: no step of checkVerifyAndUpdateRegistryEntries, called by the health
\* job or by a registry query, changes the status, uptimeCount or
\* uptimeCheckCount of an entry that is Deregistered.
C39_BatcherLeavesDeregisteredAlone ==
    [][(query' # query \/ hc' # hc)
          => \A e \in entries :
                e.status = Deregistered
                   => \E f \in entries' : /\ f.assetIdentifier = e.assetIdentifier
                                          /\ f.status = e.status
                                          /\ f.uptimeCount = e.uptimeCount
                                          /\ f.uptimeCheckCount = e.uptimeCheckCount]_vars

\* C40: as long as no operator has set a cursor back, every write of a
\* source's cursor names a transaction of the ledger that is not earlier in
\* ledger order than the transaction persisted before it, and lastCheckedPage
\* never decreases, within a scan run and from one run to the next.
C40_CursorNeverMovesBackward ==
    [][\A s \in DOMAIN sources :
         (sources'[s] # sources[s] /\ rewound'.at = 0)
            => /\ sources'[s].lastCheckedPage >= sources[s].lastCheckedPage
               /\ CursorIndex(s)' > 0
               /\ CursorIndex(s)' >= CursorIndex(s)]_vars

\* C40 witness: a run that began at a persisted cursor, never rewound, has
\* written a later transaction on a later page
C40_Witness ==
    \E c \in DOMAIN scan, s \in DOMAIN sources :
       /\ rewound.at = 0
       /\ scan[c].pc = "run"
       /\ scan[c].task[s].cursorTxHash # Null
       /\ sources[s].lastTxId # scan[c].task[s].cursorTxHash
       /\ sources[s].lastCheckedPage > 1

====
